---- MODULE Spec2Model ----
(***************************************************************************)
(* Conversion kernel of the Arrow <-> ORC adapter:                         *)
(*   cpp/src/arrow/adapters/orc/adapter_util.cc  (AppendBatch, WriteBatch, *)
(*       NormalizeArray and the per-kind appenders / writers)              *)
(*   cpp/src/arrow/adapters/orc/adapter.cc       (ORCFileWriter::Write)    *)
(*                                                                         *)
(* Arrays are records holding RAW buffers plus (offset, length), as an     *)
(* arrow::ArrayData does; a slice shares the buffers and moves the offset. *)
(* ORC column vector batches are records holding the per-kind buffers.     *)
(***************************************************************************)
EXTENDS Integers, Sequences, FiniteSets, TLC

\* ------------------------------------------------------------------------
\* Bounds of the model
\* ------------------------------------------------------------------------
MaxLen == 2        \* longest chunk / array handed to a writer
MaxOff == 1        \* largest offset a top-level chunk carries into its buffers
MaxChunks == 2     \* most chunks of a chunked column
MaxCap == 2        \* largest capacity (length) asked of one chunked WriteBatch
MaxBatchSize == 2  \* largest batch_size ORCFileWriter::Write is modelled with

\* ------------------------------------------------------------------------
\* Small helpers
\* ------------------------------------------------------------------------
Min(a, b) == IF a < b THEN a ELSE b

Max(a, b) == IF a < b THEN b ELSE a

RECURSIVE SumSeq(_)
SumSeq(s) == IF s = <<>> THEN 0 ELSE Head(s) + SumSeq(Tail(s))

RECURSIVE Flatten(_)
Flatten(ss) == IF ss = <<>> THEN <<>> ELSE Head(ss) \o Flatten(Tail(ss))

Repeat(v, n) == [p \in 1..n |-> v]

\* buf[i] = v for a 0-based index i.  A store at or past the end of the
\* buffer lands beyond the allocation: the buffer is shown grown to hold it,
\* so that such a store is visible as Len(buffer) > capacity.
Store(buf, i, v, fill) ==
  IF i < Len(buf) THEN [buf EXCEPT ![i + 1] = v]
  ELSE buf \o Repeat(fill, i - Len(buf)) \o <<v>>

\* DataBuffer::resize keeps the contents and appends new slots.
GrowTo(buf, n, fill) ==
  IF Len(buf) >= n THEN buf ELSE buf \o Repeat(fill, n - Len(buf))

\* ------------------------------------------------------------------------
\* Arrow data types: id, child types, timestamp unit, decimal precision and
\* scale, and whether the field of this type is declared nullable
\* ------------------------------------------------------------------------
DataType(id, children) ==
  [id |-> id, children |-> children, unit |-> "", precision |-> 0, scale |-> 0,
   list_size |-> 0, byte_width |-> 0, nullable |-> TRUE]

\* field(name, type, /*nullable=*/false)
NotNullable(type) == [type EXCEPT !.nullable = FALSE]

TimestampType(unit) ==
  [DataType("TIMESTAMP", <<>>) EXCEPT !.unit = unit]

Decimal128Type(precision, scale) ==
  [DataType("DECIMAL128", <<>>) EXCEPT !.precision = precision, !.scale = scale]

FixedSizeBinaryType(byte_width) ==
  [DataType("FIXED_SIZE_BINARY", <<>>) EXCEPT !.byte_width = byte_width]

FixedSizeListType(value_type, list_size) ==
  [DataType("FIXED_SIZE_LIST", <<value_type>>) EXCEPT !.list_size = list_size]

\* ------------------------------------------------------------------------
\* Arrow arrays (arrow::ArrayData): raw buffers + offset + length
\* ------------------------------------------------------------------------
NoBitmap == <<>>   \* null_bitmap() == nullptr

MakeArrayData(type, length, offset, null_bitmap, values, value_offsets, child_data) ==
  [type |-> type, length |-> length, offset |-> offset,
   null_bitmap |-> null_bitmap, values |-> values,
   value_offsets |-> value_offsets, child_data |-> child_data]

\* Array::IsValid(i): bit (offset + i) of the validity bitmap, or true
IsValid(array, i) ==
  array.null_bitmap = NoBitmap \/ array.null_bitmap[array.offset + i + 1]

IsNull(array, i) == ~IsValid(array, i)

\* Array::null_count(): counted over [offset, offset + length)
null_count(array) ==
  Cardinality({i \in 0..(array.length - 1) : IsNull(array, i)})

\* Array::Slice(offset, length): same buffers, offset moved, length clamped
Slice(array, off, len) ==
  [array EXCEPT !.offset = array.offset + off,
                !.length = Min(len, array.length - off)]

\* PrimitiveArray::Value(i) / GetValue(i)
Value(array, i) == array.values[array.offset + i + 1]

\* ListArray::value_offset(i); FixedSizeListArray has no offsets buffer and
\* computes (offset + i) * list_size
value_offset(array, i) ==
  IF array.type.id = "FIXED_SIZE_LIST"
  THEN (array.offset + i) * array.type.list_size
  ELSE array.value_offsets[array.offset + i + 1]

\* StructArray::field(i): the child, sliced by the struct's own offset
field(array, i) ==
  LET child == array.child_data[i]
  IN IF array.offset /= 0 \/ child.length /= array.length
     THEN Slice(child, array.offset, array.length)
     ELSE child

\* ListArray::values(), MapArray::keys(), MapArray::items(): the raw child
values(array) == array.child_data[1]

keys(array) == array.child_data[1]

items(array) == array.child_data[2]

\* arrow::internal::BitmapAnd(left, left_offset, right, right_offset, length, 0)
BitmapAnd(left, left_offset, right, right_offset, length) ==
  [p \in 1..length |-> left[left_offset + p] /\ right[right_offset + p]]

\* ------------------------------------------------------------------------
\* NormalizeArray: make the children of a StructArray carry its nulls
\* ------------------------------------------------------------------------
LeafTypeIds ==
  {"BOOL", "INT8", "INT16", "INT32", "INT64", "FLOAT", "DOUBLE", "STRING",
   "LARGE_STRING", "BINARY", "LARGE_BINARY", "FIXED_SIZE_BINARY", "DATE32",
   "DATE64", "TIMESTAMP", "DECIMAL128"}

\* One turn of the loop over the fields of a struct with nulls: the child
\* rebuilt with the combined bitmap.  Both bitmaps are read from bit 0 and
\* ArrayData::Make is given no offset, so the new child starts at offset 0.
NormalizeStructChild(struct_array, i) ==
  LET bitmap == struct_array.null_bitmap
      child == field(struct_array, i)
      child_bitmap == child.null_bitmap
      final_child_bitmap ==
        IF child_bitmap = NoBitmap THEN bitmap
        ELSE BitmapAnd(bitmap, 0, child_bitmap, 0, struct_array.length)
  IN MakeArrayData(child.type, child.length, 0, final_child_bitmap,
                   child.values, child.value_offsets, child.child_data)

RECURSIVE NormalizeArray(_)
NormalizeArray(array) ==
  LET kind == array.type.id
  IN CASE kind \in LeafTypeIds -> array
       [] kind = "STRUCT" ->
            IF null_count(array) = 0 THEN array
            ELSE MakeArrayData(array.type, array.length, 0, array.null_bitmap,
                               <<>>, <<>>,
                               [i \in 1..Len(array.child_data) |->
                                  NormalizeArray(NormalizeStructChild(array, i))])
       [] kind \in {"LIST", "LARGE_LIST"} ->
            MakeArrayData(array.type, array.length, 0, array.null_bitmap, <<>>,
                          array.value_offsets, <<NormalizeArray(values(array))>>)
       [] kind = "FIXED_SIZE_LIST" ->
            MakeArrayData(array.type, array.length, 0, array.null_bitmap, <<>>,
                          <<>>, <<NormalizeArray(values(array))>>)
       [] kind = "MAP" ->
            MakeArrayData(array.type, array.length, 0, array.null_bitmap, <<>>,
                          array.value_offsets,
                          <<NormalizeArray(keys(array)), NormalizeArray(items(array))>>)
       [] OTHER -> array

\* ------------------------------------------------------------------------
\* ORC types and column vector batches (liborc)
\* ------------------------------------------------------------------------
OrcType(kind, subtypes) ==
  [kind |-> kind, subtypes |-> subtypes, precision |-> 0, scale |-> 0, max_length |-> 0]

OrcDecimalType(precision, scale) ==
  [OrcType("DECIMAL", <<>>) EXCEPT !.precision = precision, !.scale = scale]

\* Result of a translation or conversion routine: a Status and its output
Return(st, v) == [st |-> st, v |-> v]

\* GetORCType(const DataType&): the file-format type of an array-model type.
\* A failure below a nested type is met by ValueOrDie, which aborts.
RECURSIVE GetORCType(_)
GetORCSubtypes(type) ==
  [i \in 1..Len(type.children) |-> GetORCType(type.children[i])]

GetORCType(type) ==
  LET kind == type.id
      subs == GetORCSubtypes(type)
      subs_ok == \A i \in 1..Len(subs) : subs[i].st = "OK"
      sub_types == [i \in 1..Len(subs) |-> subs[i].v]
      Nested(orc_kind) ==
        IF subs_ok THEN Return("OK", OrcType(orc_kind, sub_types))
        ELSE Return("Abort", OrcType(orc_kind, <<>>))
  IN CASE kind = "BOOL" -> Return("OK", OrcType("BOOLEAN", <<>>))
       [] kind = "INT8" -> Return("OK", OrcType("BYTE", <<>>))
       [] kind = "INT16" -> Return("OK", OrcType("SHORT", <<>>))
       [] kind = "INT32" -> Return("OK", OrcType("INT", <<>>))
       [] kind = "INT64" -> Return("OK", OrcType("LONG", <<>>))
       [] kind = "FLOAT" -> Return("OK", OrcType("FLOAT", <<>>))
       [] kind = "DOUBLE" -> Return("OK", OrcType("DOUBLE", <<>>))
       [] kind \in {"STRING", "LARGE_STRING"} -> Return("OK", OrcType("STRING", <<>>))
       [] kind \in {"BINARY", "LARGE_BINARY", "FIXED_SIZE_BINARY"} ->
            Return("OK", OrcType("BINARY", <<>>))
       [] kind = "DATE32" -> Return("OK", OrcType("DATE", <<>>))
       [] kind \in {"DATE64", "TIMESTAMP"} -> Return("OK", OrcType("TIMESTAMP", <<>>))
       [] kind = "DECIMAL128" -> Return("OK", OrcDecimalType(type.precision, type.scale))
       [] kind \in {"LIST", "FIXED_SIZE_LIST", "LARGE_LIST"} -> Nested("LIST")
       [] kind = "STRUCT" -> Nested("STRUCT")
       [] kind = "MAP" -> Nested("MAP")
       [] kind \in {"DENSE_UNION", "SPARSE_UNION"} -> Nested("UNION")
       [] kind = "DICTIONARY" ->
            IF subs_ok THEN subs[1] ELSE Return("Abort", OrcType("", <<>>))
       [] OTHER -> Return("Invalid", OrcType("", <<>>))

\* GetArrowType(const liborc::Type*, out): the Arrow type of a file-format type
RECURSIVE GetArrowType(_)
GetArrowType(type) ==
  LET kind == type.kind
      subtype_count == Len(type.subtypes)
      subs == [k \in 1..subtype_count |-> GetArrowType(type.subtypes[k])]
      subs_ok == \A k \in 1..subtype_count : subs[k].st = "OK"
      failed == CHOOSE k \in 1..subtype_count :
                  subs[k].st /= "OK" /\ \A j \in 1..(k - 1) : subs[j].st = "OK"
      Nested(id) ==
        IF subs_ok
        THEN Return("OK", DataType(id, [k \in 1..subtype_count |-> subs[k].v]))
        ELSE subs[failed]
  IN CASE type.kind = "nullptr" -> Return("OK", DataType("NA", <<>>))
       [] kind = "BOOLEAN" -> Return("OK", DataType("BOOL", <<>>))
       [] kind = "BYTE" -> Return("OK", DataType("INT8", <<>>))
       [] kind = "SHORT" -> Return("OK", DataType("INT16", <<>>))
       [] kind = "INT" -> Return("OK", DataType("INT32", <<>>))
       [] kind = "LONG" -> Return("OK", DataType("INT64", <<>>))
       [] kind = "FLOAT" -> Return("OK", DataType("FLOAT", <<>>))
       [] kind = "DOUBLE" -> Return("OK", DataType("DOUBLE", <<>>))
       [] kind \in {"VARCHAR", "STRING"} -> Return("OK", DataType("STRING", <<>>))
       [] kind = "BINARY" -> Return("OK", DataType("BINARY", <<>>))
       [] kind = "CHAR" -> Return("OK", FixedSizeBinaryType(type.max_length))
       [] kind = "TIMESTAMP" -> Return("OK", TimestampType("NANO"))
       [] kind = "DATE" -> Return("OK", DataType("DATE32", <<>>))
       [] kind = "DECIMAL" ->
            IF type.precision = 0 THEN Return("OK", Decimal128Type(38, 6))
            ELSE Return("OK", Decimal128Type(type.precision, type.scale))
       [] kind = "LIST" ->
            IF subtype_count /= 1 THEN Return("Invalid", DataType("NA", <<>>))
            ELSE Nested("LIST")
       [] kind = "MAP" ->
            IF subtype_count /= 2 THEN Return("Invalid", DataType("NA", <<>>))
            ELSE IF subs_ok
                 THEN Return("OK", DataType("MAP", <<NotNullable(subs[1].v), subs[2].v>>))
                 ELSE subs[failed]
       [] kind = "STRUCT" -> Nested("STRUCT")
       [] kind = "UNION" -> Nested("SPARSE_UNION")
       [] OTHER -> Return("Invalid", DataType("NA", <<>>))

\* The vector batch class liborc allocates for a type
BatchKindOf(orc_type) ==
  LET kind == orc_type.kind
  IN CASE kind \in {"BOOLEAN", "BYTE", "SHORT", "INT", "LONG", "DATE"} -> "Long"
       [] kind \in {"FLOAT", "DOUBLE"} -> "Double"
       [] kind \in {"STRING", "VARCHAR", "CHAR", "BINARY"} -> "String"
       [] kind = "TIMESTAMP" -> "Timestamp"
       [] kind = "DECIMAL" ->
            IF orc_type.precision = 0 \/ orc_type.precision > 18
            THEN "Decimal128" ELSE "Decimal64"
       [] kind = "STRUCT" -> "Struct"
       [] kind = "LIST" -> "List"
       [] kind = "MAP" -> "Map"
       [] OTHER -> "Union"

\* Content of a buffer slot nothing has been stored to yet: a value no writer
\* stores, so that a read of such a slot shows in what is computed from it
Unset == -1

\* A column vector batch.  notNull, data, length, nanoseconds hold one slot
\* per row; offsets holds capacity + 1 slots; children are the field batches
\* of a struct, <<elements>> of a list, <<keys, elements>> of a map.
MakeBatch(kind, capacity, children) ==
  [kind |-> kind, capacity |-> capacity, numElements |-> 0, hasNulls |-> FALSE,
   notNull |-> Repeat(TRUE, capacity),
   data |-> IF kind \in {"Long", "Double", "Timestamp", "Decimal64", "Decimal128"}
            THEN Repeat(Unset, capacity) ELSE <<>>,
   bytes |-> IF kind = "String" THEN Repeat(<<>>, capacity) ELSE <<>>,
   length |-> IF kind = "String" THEN Repeat(Unset, capacity) ELSE <<>>,
   nanoseconds |-> IF kind = "Timestamp" THEN Repeat(Unset, capacity) ELSE <<>>,
   offsets |-> IF kind \in {"List", "Map"} THEN Repeat(Unset, capacity + 1) ELSE <<>>,
   children |-> children]

\* Writer::createRowBatch(size) / Type::createRowBatch: the batch tree of a type
RECURSIVE createRowBatch(_, _)
createRowBatch(orc_type, size) ==
  MakeBatch(BatchKindOf(orc_type), size,
            [i \in 1..Len(orc_type.subtypes) |->
               createRowBatch(orc_type.subtypes[i], size)])

\* ColumnVectorBatch::resize(cap): grows the batch's own buffers only
resize(batch, cap) ==
  IF cap <= batch.capacity THEN batch
  ELSE [batch EXCEPT
          !.capacity = cap,
          !.notNull = GrowTo(@, cap, TRUE),
          !.data = IF batch.kind \in {"Long", "Double", "Timestamp", "Decimal64",
                                      "Decimal128"}
                   THEN GrowTo(@, cap, Unset) ELSE @,
          !.bytes = IF batch.kind = "String" THEN GrowTo(@, cap, <<>>) ELSE @,
          !.length = IF batch.kind = "String" THEN GrowTo(@, cap, Unset) ELSE @,
          !.nanoseconds = IF batch.kind = "Timestamp" THEN GrowTo(@, cap, Unset) ELSE @,
          !.offsets = IF batch.kind \in {"List", "Map"}
                      THEN GrowTo(@, cap + 1, Unset) ELSE @]

\* ColumnVectorBatch::clear(): numElements = 0; a struct batch clears its
\* fields too, a list or map batch does not reach into its children.
\* Buffers and hasNulls are left as they are.
RECURSIVE clear(_)
clear(batch) ==
  [batch EXCEPT !.numElements = 0,
                !.children = IF batch.kind = "Struct"
                             THEN [i \in 1..Len(batch.children) |->
                                     clear(batch.children[i])]
                             ELSE @]

\* ------------------------------------------------------------------------
\* Integer arithmetic of the C++ code
\* ------------------------------------------------------------------------
\* C++ integer division: the quotient truncated toward zero (b > 0)
TruncDiv(a, b) == IF a >= 0 THEN a \div b ELSE -((-a) \div b)

kOneSecondMillis == 1000

kOneMicroNanos == 1000

kOneSecondMicros == 1000000

kOneMilliNanos == 1000000

kOneSecondNanos == 1000000000

\* ------------------------------------------------------------------------
\* Encode path: the per-kind appenders (one element each)
\* ------------------------------------------------------------------------
\* VisitNull of every appender: batch->notNull[running_orc_offset] = false
VisitNull(batch, running_orc_offset) ==
  [batch EXCEPT !.notNull = Store(@, running_orc_offset, FALSE, TRUE)]

\* The widening store of a number-like value into an int64 / double slot
WidenValue(type, v) == IF type.id = "BOOL" THEN (IF v THEN 1 ELSE 0) ELSE v

\* Appender<number-like>::VisitValue
AppenderVisitValue_KeepNotNull(array, batch, running_orc_offset, running_arrow_offset) ==
  [batch EXCEPT
     !.data = Store(@, running_orc_offset,
                    WidenValue(array.type, Value(array, running_arrow_offset)), Unset)]

AppenderVisitValue(array, batch, running_orc_offset, running_arrow_offset) ==
  [batch EXCEPT
     !.data = Store(@, running_orc_offset,
                    WidenValue(array.type, Value(array, running_arrow_offset)), Unset),
     !.notNull = Store(@, running_orc_offset, TRUE, TRUE)]

\* Appender<binary-like, StringVectorBatch>::VisitValue: pointer and length
BinaryAppenderVisitValue(array, batch, running_orc_offset, running_arrow_offset) ==
  [batch EXCEPT
     !.notNull = Store(@, running_orc_offset, TRUE, TRUE),
     !.bytes = Store(@, running_orc_offset, Value(array, running_arrow_offset), <<>>),
     !.length = Store(@, running_orc_offset,
                      Len(Value(array, running_arrow_offset)), Unset)]

\* The low 64 bits of a 128-bit value read as an int64: the value itself
\* over the range of a decimal of precision <= 18, which is what the model holds
LowerBits(v) == v

\* Appender<Decimal128Type, Decimal64VectorBatch>::VisitValue: the low 64 bits
Decimal64AppenderVisitValue(array, batch, running_orc_offset, running_arrow_offset) ==
  [batch EXCEPT
     !.notNull = Store(@, running_orc_offset, TRUE, TRUE),
     !.data = Store(@, running_orc_offset,
                    LowerBits(Value(array, running_arrow_offset)), Unset)]

\* Appender<Decimal128Type, Decimal128VectorBatch>::VisitValue: Int128(high, low)
Decimal128AppenderVisitValue(array, batch, running_orc_offset, running_arrow_offset) ==
  [batch EXCEPT
     !.notNull = Store(@, running_orc_offset, TRUE, TRUE),
     !.data = Store(@, running_orc_offset, Value(array, running_arrow_offset), Unset)]

\* TimestampAppender::VisitValue.  data / conversion_factor_from_second is an
\* int64 division; std::floor is applied to its (already integral) quotient.
TimestampAppenderVisitValue(array, batch, running_orc_offset, running_arrow_offset, conversion_factor_from_second, conversion_factor_to_nano) ==
  LET data == Value(array, running_arrow_offset)
      seconds == TruncDiv(data, conversion_factor_from_second)
  IN [batch EXCEPT
        !.notNull = Store(@, running_orc_offset, TRUE, TRUE),
        !.data = Store(@, running_orc_offset, seconds, Unset),
        !.nanoseconds =
           Store(@, running_orc_offset,
                 (data - conversion_factor_from_second * seconds)
                 * conversion_factor_to_nano, Unset)]

\* FixedSizeBinaryAppender::VisitValue: pointer and the type's byte width
FixedSizeBinaryAppenderVisitValue(array, batch, running_orc_offset, running_arrow_offset) ==
  [batch EXCEPT
     !.notNull = Store(@, running_orc_offset, TRUE, TRUE),
     !.bytes = Store(@, running_orc_offset, Value(array, running_arrow_offset), <<>>),
     !.length = Store(@, running_orc_offset, array.type.byte_width, Unset)]

\* The appender chosen by the writer, applied to one valid element
VisitValue(appender, array, batch, pos, i, from_second, to_nano) ==
  CASE appender = "generic" -> AppenderVisitValue(array, batch, pos, i)
    [] appender = "binary" -> BinaryAppenderVisitValue(array, batch, pos, i)
    [] appender = "decimal64" -> Decimal64AppenderVisitValue(array, batch, pos, i)
    [] appender = "decimal128" -> Decimal128AppenderVisitValue(array, batch, pos, i)
    [] appender = "timestamp" ->
         TimestampAppenderVisitValue(array, batch, pos, i, from_second, to_nano)
    [] appender = "fsb" -> FixedSizeBinaryAppenderVisitValue(array, batch, pos, i)

\* ArrayDataVisitor::Visit: VisitValue / VisitNull for elements i .. length-1
\* in order, the appender's two running offsets advancing together
RECURSIVE Visit(_, _, _, _, _, _, _)
Visit(appender, array, batch, orc_offset, i, from_second, to_nano) ==
  IF i >= array.length THEN batch
  ELSE Visit(appender, array,
             IF IsNull(array, i) THEN VisitNull(batch, orc_offset + i)
             ELSE VisitValue(appender, array, batch, orc_offset + i, i,
                             from_second, to_nano),
             orc_offset, i + 1, from_second, to_nano)

\* if (array.null_count()) batch->hasNulls = true;
SetHasNulls(array, batch) ==
  IF null_count(array) /= 0 THEN [batch EXCEPT !.hasNulls = TRUE] ELSE batch

\* WriteGenericBatch<DataType, BatchType>
WriteGenericBatch(appender, array, orc_offset, batch) ==
  Return("OK", Visit(appender, array, SetHasNulls(array, batch), orc_offset, 0, 1, 1))

\* WriteTimestampBatch<DataType>
WriteTimestampBatch(array, orc_offset, batch, conversion_factor_from_second, conversion_factor_to_nano) ==
  Return("OK", Visit("timestamp", array, SetHasNulls(array, batch), orc_offset, 0,
                     conversion_factor_from_second, conversion_factor_to_nano))

\* WriteFixedSizeBinaryBatch
WriteFixedSizeBinaryBatch(array, orc_offset, batch) ==
  Return("OK", Visit("fsb", array, SetHasNulls(array, batch), orc_offset, 0, 1, 1))

\* ------------------------------------------------------------------------
\* Encode path: struct, list and map writers and the per-array dispatcher
\* ------------------------------------------------------------------------
RECURSIVE WriteBatch(_, _, _, _)
RECURSIVE WriteStructFields(_, _, _, _)
RECURSIVE WriteListLoop(_, _, _, _)
RECURSIVE WriteMapLoop(_, _, _, _)

\* First loop of WriteStructBatch: the struct batch's own notNull flags
RECURSIVE WriteStructNotNull(_, _, _, _)
WriteStructNotNull(array, orc_offset, batch, running_arrow_offset) ==
  IF running_arrow_offset >= array.length THEN batch
  ELSE WriteStructNotNull(
         array, orc_offset,
         [batch EXCEPT !.notNull = Store(@, orc_offset + running_arrow_offset,
                                         ~IsNull(array, running_arrow_offset), TRUE)],
         running_arrow_offset + 1)

\* Second loop of WriteStructBatch, from field i on: resize the field batch
\* and write the field over the same range; the first failure returns
WriteStructFields(array, orc_offset, batch, i) ==
  IF i > Len(array.type.children) THEN Return("OK", batch)
  ELSE LET resized == resize(batch.children[i], orc_offset + array.length)
           r == WriteBatch(field(array, i), orc_offset, resized, TRUE)
           next == [batch EXCEPT !.children[i] = r.v]
       IN IF r.st /= "OK" THEN Return(r.st, next)
          ELSE WriteStructFields(array, orc_offset, next, i + 1)

WriteStructBatch(array, orc_offset, batch, normalized) ==
  WriteStructFields(array, orc_offset,
                    WriteStructNotNull(array, orc_offset, SetHasNulls(array, batch), 0),
                    1)

\* batch->offsets[running_orc_offset + 1] of a valid list:
\* offsets[running_orc_offset] + value_offset(i + 1) - value_offset(i)
ListEnd_RawOffset(array, batch, running_orc_offset, running_arrow_offset) ==
  value_offset(array, running_arrow_offset + 1)

ListEnd(array, batch, running_orc_offset, running_arrow_offset) ==
  batch.offsets[running_orc_offset + 1]
    + value_offset(array, running_arrow_offset + 1)
    - value_offset(array, running_arrow_offset)

\* The loop of WriteListBatch from element running_arrow_offset on
WriteListLoop(array, orc_offset, batch, running_arrow_offset) ==
  IF running_arrow_offset >= array.length THEN Return("OK", batch)
  ELSE
    LET running_orc_offset == orc_offset + running_arrow_offset
    IN IF IsNull(array, running_arrow_offset)
       THEN WriteListLoop(
              array, orc_offset,
              [batch EXCEPT
                 !.notNull = Store(@, running_orc_offset, FALSE, TRUE),
                 !.offsets = Store(@, running_orc_offset + 1,
                                   batch.offsets[running_orc_offset + 1], Unset)],
              running_arrow_offset + 1)
       ELSE
         LET end == ListEnd(array, batch, running_orc_offset, running_arrow_offset)
             subarray_arrow_offset == value_offset(array, running_arrow_offset)
             subarray_orc_offset == batch.offsets[running_orc_offset + 1]
             subarray_orc_length == end - subarray_orc_offset
             r == WriteBatch(Slice(values(array), subarray_arrow_offset,
                                   subarray_orc_length),
                             subarray_orc_offset,
                             resize(batch.children[1], end), FALSE)
             next == [batch EXCEPT
                        !.notNull = Store(@, running_orc_offset, TRUE, TRUE),
                        !.offsets = Store(@, running_orc_offset + 1, end, Unset),
                        !.children[1] = r.v]
         IN IF r.st /= "OK" THEN Return(r.st, next)
            ELSE WriteListLoop(array, orc_offset, next, running_arrow_offset + 1)

\* if (orc_offset == 0) batch->offsets[0] = 0;
ResetFirstOffset_Never(orc_offset, batch) == batch

ResetFirstOffset(orc_offset, batch) ==
  IF orc_offset = 0 THEN [batch EXCEPT !.offsets = Store(@, 0, 0, Unset)] ELSE batch

\* WriteListBatch<ListArray | LargeListArray | FixedSizeListArray>
WriteListBatch(array, orc_offset, batch) ==
  WriteListLoop(array, orc_offset,
                SetHasNulls(array, ResetFirstOffset(orc_offset, batch)), 0)

\* The loop of WriteMapBatch from element running_arrow_offset on
WriteMapLoop(array, orc_offset, batch, running_arrow_offset) ==
  IF running_arrow_offset >= array.length THEN Return("OK", batch)
  ELSE
    LET running_orc_offset == orc_offset + running_arrow_offset
    IN IF IsNull(array, running_arrow_offset)
       THEN WriteMapLoop(
              array, orc_offset,
              [batch EXCEPT
                 !.notNull = Store(@, running_orc_offset, FALSE, TRUE),
                 !.offsets = Store(@, running_orc_offset + 1,
                                   batch.offsets[running_orc_offset + 1], Unset)],
              running_arrow_offset + 1)
       ELSE
         LET subarray_arrow_offset == value_offset(array, running_arrow_offset)
             subarray_orc_offset == batch.offsets[running_orc_offset + 1]
             new_subarray_orc_offset ==
               subarray_orc_offset + value_offset(array, running_arrow_offset + 1)
                 - value_offset(array, running_arrow_offset)
             subarray_orc_length == new_subarray_orc_offset - subarray_orc_offset
             rk == WriteBatch(Slice(keys(array), subarray_arrow_offset,
                                    subarray_orc_length),
                              subarray_orc_offset,
                              resize(batch.children[1], new_subarray_orc_offset), FALSE)
             marked == [batch EXCEPT
                          !.notNull = Store(@, running_orc_offset, TRUE, TRUE),
                          !.offsets = Store(@, running_orc_offset + 1,
                                            new_subarray_orc_offset, Unset),
                          !.children[1] = rk.v,
                          !.children[2] = resize(@, new_subarray_orc_offset)]
             re == WriteBatch(Slice(items(array), subarray_arrow_offset,
                                    subarray_orc_length),
                              subarray_orc_offset, marked.children[2], FALSE)
             next == [marked EXCEPT !.children[2] = re.v]
         IN IF rk.st /= "OK" THEN Return(rk.st, marked)
            ELSE IF re.st /= "OK" THEN Return(re.st, next)
            ELSE WriteMapLoop(array, orc_offset, next, running_arrow_offset + 1)

WriteMapBatch(array, orc_offset, batch) ==
  WriteMapLoop(array, orc_offset,
               SetHasNulls(array, ResetFirstOffset(orc_offset, batch)), 0)

\* checked_cast<BatchType*>(column_vector_batch): the batch is of that class.
\* A cast to another class is undefined; the routines that model it end
\* "BadCast" in place of every outcome a build can give.
checked_cast(kind, batch) == batch.kind = kind

\* precision > 18
IsWidePrecision_From20(precision) == precision > 19

IsWidePrecision(precision) == precision > 18

\* The per-array WriteBatch(array, orc_offset, column_vector_batch, normalized):
\* numElements is set to the START offset, then the writer of the kind runs
WriteBatch(array, orc_offset, column_vector_batch, normalized) ==
  LET kind == array.type.id
      batch == [column_vector_batch EXCEPT !.numElements = orc_offset]
      unit == array.type.unit
  IN CASE kind \in {"BOOL", "INT8", "INT16", "INT32", "INT64", "FLOAT", "DOUBLE",
                    "DATE32"} ->
            WriteGenericBatch("generic", array, orc_offset, batch)
       [] kind \in {"BINARY", "LARGE_BINARY", "STRING", "LARGE_STRING"} ->
            WriteGenericBatch("binary", array, orc_offset, batch)
       [] kind = "FIXED_SIZE_BINARY" -> WriteFixedSizeBinaryBatch(array, orc_offset, batch)
       [] kind = "DATE64" ->
            WriteTimestampBatch(array, orc_offset, batch, kOneSecondMillis, kOneMilliNanos)
       [] kind = "TIMESTAMP" ->
            CASE unit = "SECOND" ->
                   WriteTimestampBatch(array, orc_offset, batch, 1, kOneSecondNanos)
              [] unit = "MILLI" ->
                   WriteTimestampBatch(array, orc_offset, batch, kOneSecondMillis,
                                       kOneMilliNanos)
              [] unit = "MICRO" ->
                   WriteTimestampBatch(array, orc_offset, batch, kOneSecondMicros,
                                       kOneMicroNanos)
              [] unit = "NANO" ->
                   WriteTimestampBatch(array, orc_offset, batch, kOneSecondNanos, 1)
              [] OTHER -> Return("Invalid", batch)
       [] kind = "DECIMAL128" ->
            IF IsWidePrecision(array.type.precision)
            THEN IF checked_cast("Decimal128", batch)
                 THEN WriteGenericBatch("decimal128", array, orc_offset, batch)
                 ELSE Return("BadCast", batch)
            ELSE IF checked_cast("Decimal64", batch)
                 THEN WriteGenericBatch("decimal64", array, orc_offset, batch)
                 ELSE Return("BadCast", batch)
       [] kind = "STRUCT" -> WriteStructBatch(array, orc_offset, batch, normalized)
       [] kind \in {"LIST", "LARGE_LIST", "FIXED_SIZE_LIST"} ->
            WriteListBatch(array, orc_offset, batch)
       [] kind = "MAP" -> WriteMapBatch(array, orc_offset, batch)
       [] OTHER -> Return("Invalid", batch)

\* ------------------------------------------------------------------------
\* Encode path: WriteBatch over a ChunkedArray with a persistent cursor
\* ------------------------------------------------------------------------
\* What one chunked call leaves behind: the Status, the batch and the cursor
\* pair (both written through pointers, so kept on a failure too).  `source`
\* lists the <<destination position, chunk, index>> of every element handed to
\* the per-array writer, in the order they were handed over.
ChunkedReturn(st, batch, arrow_index_offset, arrow_chunk_offset, source) ==
  [st |-> st, v |-> batch, arrow_index_offset |-> arrow_index_offset,
   arrow_chunk_offset |-> arrow_chunk_offset, source |-> source]

\* std::min(length - orc_offset, array->length() - *arrow_index_offset)
NumWrittenElements_IgnoreFill(length, orc_offset, array_length, arrow_index_offset) ==
  Min(length, array_length - arrow_index_offset)

NumWrittenElements(length, orc_offset, array_length, arrow_index_offset) ==
  Min(length - orc_offset, array_length - arrow_index_offset)

\* if (orc_offset < length) { *arrow_index_offset = 0; (*arrow_chunk_offset)++; }
\* as the pair <<arrow_index_offset, arrow_chunk_offset>> it leaves
AdvanceChunk_KeepIndex(orc_offset, length, arrow_index_offset, arrow_chunk_offset) ==
  IF orc_offset < length THEN <<arrow_index_offset, arrow_chunk_offset + 1>>
  ELSE <<arrow_index_offset, arrow_chunk_offset>>

AdvanceChunk(orc_offset, length, arrow_index_offset, arrow_chunk_offset) ==
  IF orc_offset < length THEN <<0, arrow_chunk_offset + 1>>
  ELSE <<arrow_index_offset, arrow_chunk_offset>>

\* The while loop of the chunked WriteBatch, from the state it is entered in
RECURSIVE WriteBatchLoop(_, _, _, _, _, _, _)
WriteBatchLoop(column_vector_batch, arrow_index_offset, arrow_chunk_offset, length, chunked_array, orc_offset, source) ==
  IF ~(arrow_chunk_offset < Len(chunked_array) /\ orc_offset < length)
  THEN ChunkedReturn("OK", [column_vector_batch EXCEPT !.numElements = orc_offset],
                     arrow_index_offset, arrow_chunk_offset, source)
  ELSE
    LET array == NormalizeArray(chunked_array[arrow_chunk_offset + 1])
        num_written_elements ==
          NumWrittenElements(length, orc_offset, array.length, arrow_index_offset)
        wrote == num_written_elements > 0
        r == IF wrote
             THEN WriteBatch(Slice(array, arrow_index_offset, num_written_elements),
                             orc_offset, column_vector_batch, FALSE)
             ELSE Return("OK", column_vector_batch)
        orc_offset1 == IF wrote THEN orc_offset + num_written_elements ELSE orc_offset
        index1 == IF wrote THEN arrow_index_offset + num_written_elements
                  ELSE arrow_index_offset
        source1 == IF wrote
                   THEN source \o [j \in 1..num_written_elements |->
                                     <<orc_offset + j - 1, arrow_chunk_offset,
                                       arrow_index_offset + j - 1>>]
                   ELSE source
        cursor == AdvanceChunk(orc_offset1, length, index1, arrow_chunk_offset)
    IN IF r.st /= "OK"
       THEN ChunkedReturn(r.st, r.v, arrow_index_offset, arrow_chunk_offset, source)
       ELSE WriteBatchLoop(r.v, cursor[1], cursor[2], length, chunked_array,
                           orc_offset1, source1)

\* adapters::orc::WriteBatch(column_vector_batch, arrow_index_offset,
\*                           arrow_chunk_offset, length, chunked_array)
WriteBatchChunked(column_vector_batch, arrow_index_offset, arrow_chunk_offset, length, chunked_array) ==
  WriteBatchLoop(column_vector_batch, arrow_index_offset, arrow_chunk_offset, length,
                 chunked_array, 0, <<>>)

\* ------------------------------------------------------------------------
\* Input families: arrays of a type with raw buffers of n slots
\* ------------------------------------------------------------------------
MaxNulls == 1   \* most cleared bits in one validity bitmap
MaxSub == 2     \* longest child range of one list / map element

\* Validity buffers of n bits: absent, or with at most MaxNulls bits cleared
Bitmaps(n) ==
  {NoBitmap} \cup
  {bm \in [1..n -> BOOLEAN] : Cardinality({p \in 1..n : ~bm[p]}) <= MaxNulls}

\* The validity buffers of an array of a field: none when it is not nullable
FieldBitmaps(type, n) == IF type.nullable THEN Bitmaps(n) ELSE {NoBitmap}

\* The value buffer of a leaf: distinct values, told apart by a seed
LeafValues(type, n, seed) ==
  CASE type.id = "BOOL" -> [p \in 1..n |-> (p + seed) % 2 = 1]
    [] type.id \in {"STRING", "LARGE_STRING", "BINARY", "LARGE_BINARY"} ->
         [p \in 1..n |-> Repeat(seed, p % 3)]
    [] type.id = "FIXED_SIZE_BINARY" -> [p \in 1..n |-> Repeat(p, type.byte_width)]
    [] OTHER -> [p \in 1..n |-> 10 * seed + p]

\* Offsets buffers of n list elements: start at 0, each range 0..MaxSub long
RECURSIVE OffsetBuffers(_)
OffsetBuffers(n) ==
  IF n = 0 THEN {<<0>>}
  ELSE {Append(o, o[Len(o)] + d) : o \in OffsetBuffers(n - 1), d \in 0..MaxSub}

RECURSIVE Arrays(_, _, _)
Arrays(type, n, seed) ==
  LET kind == type.id
  IN CASE kind = "STRUCT" /\ Len(type.children) = 1 ->
            {MakeArrayData(type, n, 0, bm, <<>>, <<>>, <<c1>>) :
               bm \in FieldBitmaps(type, n), c1 \in Arrays(type.children[1], n, 2 * seed)}
       [] kind = "STRUCT" /\ Len(type.children) = 2 ->
            {MakeArrayData(type, n, 0, bm, <<>>, <<>>, <<c1, c2>>) :
               bm \in FieldBitmaps(type, n), c1 \in Arrays(type.children[1], n, 2 * seed),
               c2 \in Arrays(type.children[2], n, 2 * seed + 1)}
       [] kind \in {"LIST", "LARGE_LIST"} ->
            UNION {{MakeArrayData(type, n, 0, bm, <<>>, o, <<c>>) :
                      bm \in FieldBitmaps(type, n),
                      c \in Arrays(type.children[1], o[Len(o)], 2 * seed)} :
                   o \in OffsetBuffers(n)}
       [] kind = "FIXED_SIZE_LIST" ->
            {MakeArrayData(type, n, 0, bm, <<>>, <<>>, <<c>>) :
               bm \in FieldBitmaps(type, n),
               c \in Arrays(type.children[1], n * type.list_size, 2 * seed)}
       [] kind = "MAP" ->
            UNION {{MakeArrayData(type, n, 0, bm, <<>>, o, <<k, c>>) :
                      bm \in FieldBitmaps(type, n),
                      k \in Arrays(type.children[1], o[Len(o)], 2 * seed),
                      c \in Arrays(type.children[2], o[Len(o)], 2 * seed + 1)} :
                   o \in OffsetBuffers(n)}
       [] OTHER ->
            {MakeArrayData(type, n, 0, bm, LeafValues(type, n, seed), <<>>, <<>>) :
               bm \in FieldBitmaps(type, n)}

\* Chunks as a caller can hand them over: an array, or a slice of a longer one
Chunks(type, seed) ==
  UNION {{Slice(a, k, n) : a \in Arrays(type, n + k, seed)} :
         n \in 0..MaxLen, k \in 0..MaxOff}

\* Total length of a chunked array
ChunkedLength(chunked_array) ==
  SumSeq([c \in 1..Len(chunked_array) |-> chunked_array[c].length])

\* ------------------------------------------------------------------------
\* State
\* ------------------------------------------------------------------------
VARIABLES
  table,               \* the columns being written: one ChunkedArray each
  batch_size,          \* capacity of the row batch / length asked per call
  numRows,             \* ORCFileWriter::Write: rows still to be flushed
  arrow_index_offset,  \* per column: offset within the current chunk
  arrow_chunk_offset,  \* per column: index of the current chunk
  root,                \* the row batch (struct) whose fields are the columns
  i,                   \* ORCFileWriter::Write: column index of the for loop
  pc,                  \* position in the running operation
  added,               \* batches handed to writer_->add, in order
  closed,              \* number of writer_->close calls
  call,                \* the last chunked WriteBatch call and what it returned
  written,             \* rows read back from the batch after each call
  next_orc_offset,     \* per-array writer called directly: the next orc_offset
  builder,             \* decode path: the array builder appended to
  file,                \* the ORC file behind reader_, as liborc presents it
  stripes_,            \* ORCFileReader::Impl: the stripe index built by Init
  current_row_,        \* ORCFileReader::Impl: the row the next stripe reader starts at
  row_reader_,         \* the OrcStripeReader last handed out, <<>> when none
  phase,               \* the reader's state: Unopened, Open, Reading or EOF
  heap,                \* allocations made by new char[]: bytes, times released
  iterator             \* the ArrowVectorIterator, its result set and its client

vars ==
  <<table, batch_size, numRows, arrow_index_offset, arrow_chunk_offset, root, i, pc,
    added, closed, call, written, next_orc_offset, builder,
    file, stripes_, current_row_, row_reader_, phase, heap, iterator>>

\* Where no ArrowVectorIterator has been asked for
NoIterator == <<>>

\* The variables of the file reader, and their value where no file is read
reader_vars == <<file, stripes_, current_row_, row_reader_, phase>>

NoReader ==
  /\ file = <<>>
  /\ stripes_ = <<>>
  /\ current_row_ = 0
  /\ row_reader_ = <<>>
  /\ phase = "Unopened"

Int32 == DataType("INT32", <<>>)

\* GetORCType(const Schema&) followed by createRowBatch: the row batch of a table
RowBatchOf(tbl, size) ==
  createRowBatch(
    OrcType("STRUCT", [c \in 1..Len(tbl) |-> GetORCType(tbl[c][1].type).v]), size)

NoCall ==
  [length |-> 0, column |-> 0, index_before |-> 0, chunk_before |-> 0, st |-> "",
   numElements |-> 0, source |-> <<>>, start |-> 0, clears |-> 0]

\* Logical position of a cursor: the rows of a column that lie before it
CursorPosition(chunked_array, chunk_offset, index_offset) ==
  SumSeq([c \in 1..Min(chunk_offset, Len(chunked_array)) |-> chunked_array[c].length])
    + index_offset

\* The notNull flag and value of the first n rows of a leaf batch
RowsOf(batch, n) ==
  [p \in 1..n |->
     IF batch.notNull[p]
     THEN <<TRUE, IF p <= Len(batch.data) THEN batch.data[p] ELSE 0>>
     ELSE <<FALSE, 0>>]

\* The logical rows of a leaf array, in the same form
ArrayRows(array) ==
  [p \in 1..array.length |->
     IF IsValid(array, p - 1) THEN <<TRUE, WidenValue(array.type, Value(array, p - 1))>>
     ELSE <<FALSE, 0>>]

ChunkedRows(chunked_array) ==
  Flatten([c \in 1..Len(chunked_array) |-> ArrayRows(chunked_array[c])])

\* ------------------------------------------------------------------------
\* ORCFileWriter::Impl::Write, one step per loop turn
\* ------------------------------------------------------------------------
\* Plain unsliced INT32 chunks of every length, for tables that differ in
\* how their columns are chunked
PlainChunk(n, seed) ==
  MakeArrayData(Int32, n, 0, NoBitmap, LeafValues(Int32, n, seed), <<>>, <<>>)

RECURSIVE Chunkings(_)
Chunkings(k) ==
  IF k = 0 THEN {<<>>}
  ELSE Chunkings(k - 1) \cup
       {Append(c, n) : c \in {d \in Chunkings(k - 1) : Len(d) = k - 1}, n \in 0..MaxLen}

PlainColumn(lengths, seed) ==
  [c \in 1..Len(lengths) |-> PlainChunk(lengths[c], seed + c)]

\* Tables of one or two columns of equal length, each with at least one chunk
Tables ==
  LET cs == {c \in Chunkings(MaxChunks) : Len(c) >= 1}
  IN {<<PlainColumn(c, 0)>> : c \in cs} \cup
     {<<PlainColumn(p[1], 0), PlainColumn(p[2], 5)>> :
        p \in {q \in cs \X cs : SumSeq(q[1]) = SumSeq(q[2])}}

Init ==
  /\ table \in Tables
  /\ batch_size \in 1..MaxBatchSize
  /\ numRows = ChunkedLength(table[1])
  /\ arrow_index_offset = [c \in 1..Len(table) |-> 0]
  /\ arrow_chunk_offset = [c \in 1..Len(table) |-> 0]
  /\ root = RowBatchOf(table, batch_size)
  /\ i = 0
  /\ pc = "while"
  /\ added = <<>>
  /\ closed = 0
  /\ NoReader
  /\ heap = <<>>
  /\ iterator = NoIterator
  /\ call = NoCall
  /\ written = <<>>
  /\ next_orc_offset = 0
  /\ builder = <<>>

\* while (numRows > 0) { for (int i = 0; ...
EnterLoop ==
  /\ pc = "while"
  /\ numRows > 0
  /\ pc' = "for"
  /\ i' = 0
  /\ UNCHANGED <<reader_vars, heap, iterator>>
  /\ UNCHANGED <<table, batch_size, numRows, arrow_index_offset, arrow_chunk_offset,
                 root, added, closed, call, written,
                 next_orc_offset, builder>>

\* RETURN_NOT_OK(WriteBatch(fields[i], &arrow_index_offset[i],
\*                          &arrow_chunk_offset[i], batch_size, *table->column(i)))
WriteColumn ==
  /\ pc = "for"
  /\ i < Len(table)
  /\ LET r == WriteBatchChunked(root.children[i + 1], arrow_index_offset[i + 1],
                                arrow_chunk_offset[i + 1], batch_size, table[i + 1])
     IN /\ root' = [root EXCEPT !.children[i + 1] = r.v]
        /\ arrow_index_offset' = [arrow_index_offset EXCEPT ![i + 1] = r.arrow_index_offset]
        /\ arrow_chunk_offset' = [arrow_chunk_offset EXCEPT ![i + 1] = r.arrow_chunk_offset]
        /\ call' = [length |-> batch_size, column |-> i + 1,
                    index_before |-> arrow_index_offset[i + 1],
                    chunk_before |-> arrow_chunk_offset[i + 1],
                    st |-> r.st, numElements |-> r.v.numElements,
                    source |-> r.source, start |-> 0, clears |-> 0]
        /\ pc' = IF r.st = "OK" THEN "for" ELSE "failed"
  /\ i' = i + 1
  /\ UNCHANGED <<reader_vars, heap, iterator>>
  /\ UNCHANGED <<table, batch_size, numRows, added, closed, written,
                 next_orc_offset, builder>>

\* root->numElements = fields[0]->numElements;
SetRootNumElements_Capacity(batch) == [batch EXCEPT !.numElements = batch.capacity]

SetRootNumElements(batch) ==
  [batch EXCEPT !.numElements = batch.children[1].numElements]

\* root->numElements = fields[0]->numElements; writer_->add(*batch);
\* batch->clear(); numRows -= batch_size;
AddBatch ==
  /\ pc = "for"
  /\ i = Len(table)
  /\ LET filled == SetRootNumElements(root)
     IN /\ added' = Append(added, filled)
        /\ root' = clear(filled)
  /\ numRows' = numRows - batch_size
  /\ pc' = "while"
  /\ UNCHANGED <<reader_vars, heap, iterator>>
  /\ UNCHANGED <<table, batch_size, arrow_index_offset, arrow_chunk_offset, i, closed,
                 call, written,
                 next_orc_offset, builder>>

\* writer_->close(); return Status::OK();
CloseWriter ==
  /\ pc = "while"
  /\ numRows <= 0
  /\ closed' = closed + 1
  /\ pc' = "done"
  /\ UNCHANGED <<reader_vars, heap, iterator>>
  /\ UNCHANGED <<table, batch_size, numRows, arrow_index_offset, arrow_chunk_offset,
                 root, i, added, call, written,
                 next_orc_offset, builder>>

Next == EnterLoop \/ WriteColumn \/ AddBatch \/ CloseWriter

Spec == Init /\ [][Next]_vars

\* ------------------------------------------------------------------------
\* The chunked WriteBatch called directly: one column, any valid starting
\* cursor, any length per call, the batch cleared by the caller or not
\* ------------------------------------------------------------------------
\* A chunk that is a slice at offset MaxOff of a longer array whose first
\* sliced element is null
SlicedChunk(n, seed) ==
  Slice(MakeArrayData(Int32, n + MaxOff, 0, [p \in 1..(n + MaxOff) |-> p /= MaxOff + 1],
                      LeafValues(Int32, n + MaxOff, seed), <<>>, <<>>),
        MaxOff, n)

ChunkColumns ==
  UNION {{[c \in 1..Len(l) |-> IF f[c] THEN SlicedChunk(l[c], c) ELSE PlainChunk(l[c], c)] :
            f \in [1..Len(l) -> BOOLEAN]} :
         l \in Chunkings(MaxChunks)}

\* The cursors a caller can hold on a column: inside a chunk, at its end, or
\* past the last chunk
ValidCursors(chunked_array) ==
  {<<Len(chunked_array), 0>>} \cup
  UNION {{<<c - 1, k>> : k \in 0..chunked_array[c].length} : c \in 1..Len(chunked_array)}

InitChunk ==
  /\ table \in {<<col>> : col \in ChunkColumns}
  /\ batch_size = MaxCap
  /\ \E cur \in ValidCursors(table[1]) :
       /\ arrow_chunk_offset = <<cur[1]>>
       /\ arrow_index_offset = <<cur[2]>>
       /\ call = [NoCall EXCEPT !.start = CursorPosition(table[1], cur[1], cur[2])]
  /\ root = createRowBatch(OrcType("STRUCT", <<GetORCType(Int32).v>>), batch_size)
  /\ numRows = 0
  /\ i = 0
  /\ pc = "chunk"
  /\ added = <<>>
  /\ closed = 0
  /\ NoReader
  /\ heap = <<>>
  /\ iterator = NoIterator
  /\ written = <<>>
  /\ next_orc_offset = 0
  /\ builder = <<>>

\* One call WriteBatch(fields[0], &index, &chunk, length, column) with any
\* length the batch can hold
ChunkedCall ==
  /\ pc = "chunk"
  /\ \E length \in 0..batch_size :
       LET r == WriteBatchChunked(root.children[1], arrow_index_offset[1],
                                  arrow_chunk_offset[1], length, table[1])
       IN /\ root' = [root EXCEPT !.children[1] = r.v]
          /\ arrow_index_offset' = <<r.arrow_index_offset>>
          /\ arrow_chunk_offset' = <<r.arrow_chunk_offset>>
          /\ call' = [length |-> length, column |-> 1,
                      index_before |-> arrow_index_offset[1],
                      chunk_before |-> arrow_chunk_offset[1],
                      st |-> r.st, numElements |-> r.v.numElements,
                      source |-> r.source, start |-> call.start,
                      clears |-> call.clears]
          /\ written' = written \o RowsOf(r.v, r.v.numElements)
  /\ UNCHANGED <<reader_vars, heap, iterator>>
  /\ UNCHANGED <<table, batch_size, numRows, i, pc, added, closed,
                 next_orc_offset, builder>>

\* The caller's batch->clear() after a fill that put rows into the batch
ClearBatch ==
  /\ pc = "chunk"
  /\ root.children[1].numElements > 0
  /\ root' = clear(root)
  /\ UNCHANGED <<reader_vars, heap, iterator>>
  /\ UNCHANGED <<table, batch_size, numRows, arrow_index_offset, arrow_chunk_offset,
                 i, pc, added, closed, call, written,
                 next_orc_offset, builder>>

NextChunk == ChunkedCall \/ ClearBatch

SpecChunk == InitChunk /\ [][NextChunk]_vars

\* C1: one chunked WriteBatch call, from any valid cursor and for any length
\* >= 0, writes exactly n = min(length, elements remaining from the cursor)
\* values, into destination positions 0..n-1, sets the column batch's
\* numElements to n and advances the cursor pair by exactly n values.
C1_CallWritesMin ==
  call.st = "OK" =>
    LET col == table[call.column]
        before == CursorPosition(col, call.chunk_before, call.index_before)
        after == CursorPosition(col, arrow_chunk_offset[call.column],
                                arrow_index_offset[call.column])
        n == Min(call.length, ChunkedLength(col) - before)
    IN /\ Len(call.source) = n
       /\ \A p \in 1..n : call.source[p][1] = p - 1
       /\ call.numElements = n
       /\ after = before + n
       /\ <<arrow_chunk_offset[call.column], arrow_index_offset[call.column]>>
            \in ValidCursors(col)

\* A call that starts inside a chunk, runs over a chunk boundary and stops
\* because the source is exhausted before the length is reached
C1_Witness ==
  /\ call.st = "OK"
  /\ call.index_before > 0
  /\ arrow_chunk_offset[1] > call.chunk_before + 1
  /\ call.numElements > 0
  /\ call.numElements < call.length

Ceil(a, b) == (a + b - 1) \div b

\* C3: Write on a table of L rows with batch capacity C hands ceil(L/C)
\* batches to the writer (none when L = 0), their row counts sum to L, every
\* batch but the last holds C rows, and the writer is closed exactly once,
\* after the last batch.
C3_BatchesSumToTable ==
  /\ closed = (IF pc = "done" THEN 1 ELSE 0)
  /\ pc = "done" =>
       LET L == ChunkedLength(table[1])
       IN /\ Len(added) = Ceil(L, batch_size)
          /\ SumSeq([k \in 1..Len(added) |-> added[k].numElements]) = L
          /\ \A k \in 1..(Len(added) - 1) : added[k].numElements = batch_size

\* A finished Write of several batches whose last batch is only partly filled
C3_Witness ==
  /\ pc = "done"
  /\ closed = 1
  /\ Len(added) >= 2
  /\ added[Len(added)].numElements < batch_size

\* C4: for columns of equal length chunked differently, in every flush each
\* column's field batch has the numElements of column 0's batch and of the
\* root, and after every flush all column cursors have consumed the same rows.
C4_ColumnsInLockStep ==
  /\ \A k \in 1..Len(added) : \A c \in 1..Len(table) :
       added[k].children[c].numElements = added[k].numElements
  /\ pc = "while" =>
       \A c \in 1..Len(table) :
         CursorPosition(table[c], arrow_chunk_offset[c], arrow_index_offset[c])
           = SumSeq([k \in 1..Len(added) |-> added[k].numElements])

\* Two flushes done on two columns whose chunk boundaries differ
C4_Witness ==
  /\ Len(table) = 2
  /\ Len(added) >= 2
  /\ pc = "while"
  /\ [c \in 1..Len(table[1]) |-> table[1][c].length]
       /= [c \in 1..Len(table[2]) |-> table[2][c].length]
  /\ arrow_chunk_offset[1] /= arrow_chunk_offset[2]

\* ------------------------------------------------------------------------
\* The chunked WriteBatch over nested columns: structs, lists and maps
\* ------------------------------------------------------------------------
StructType(children) == DataType("STRUCT", children)

ListType(value_type) == DataType("LIST", <<value_type>>)

\* map(key_type, item_type): the key field of a map is not nullable
MapType(key_type, item_type) == DataType("MAP", <<NotNullable(key_type), item_type>>)

NestedTypes ==
  {StructType(<<Int32>>),
   StructType(<<StructType(<<Int32>>)>>),
   StructType(<<ListType(Int32)>>),
   ListType(Int32),
   ListType(StructType(<<Int32>>)),
   ListType(NotNullable(ListType(NotNullable(Int32)))),
   MapType(Int32, Int32),
   MapType(Int32, StructType(<<Int32>>)),
   FixedSizeListType(Int32, 2)}

\* The ways to cut an array of n slots into chunks: the offset of the first
\* chunk and the chunk lengths, which run to the end of the array
Cuts(n) ==
  {c \in (0..MaxOff) \X {l \in Chunkings(MaxChunks) : Len(l) >= 1} :
     c[1] + SumSeq(c[2]) = n}

\* The column whose chunks are consecutive slices of one array
ColumnOf(array, first, lengths) ==
  [c \in 1..Len(lengths) |->
     Slice(array, first + SumSeq(SubSeq(lengths, 1, c - 1)), lengths[c])]

InitEncode ==
  /\ \E type \in NestedTypes : \E array \in Arrays(type, MaxLen, 1) :
       \E c \in Cuts(MaxLen) : table = <<ColumnOf(array, c[1], c[2])>>
  /\ batch_size = MaxCap
  /\ arrow_index_offset = <<0>>
  /\ arrow_chunk_offset = <<0>>
  /\ root = RowBatchOf(table, batch_size)
  /\ numRows = 0
  /\ i = 0
  /\ pc = "chunk"
  /\ added = <<>>
  /\ closed = 0
  /\ NoReader
  /\ heap = <<>>
  /\ iterator = NoIterator
  /\ call = NoCall
  /\ written = <<>>
  /\ next_orc_offset = 0
  /\ builder = <<>>

\* One call WriteBatch(fields[0], &index, &chunk, length, column) on a column
\* that still has chunks, with any length from 1 up to the batch's capacity
EncodeCall ==
  /\ pc = "chunk"
  /\ arrow_chunk_offset[1] < Len(table[1])
  /\ \E length \in 1..batch_size :
       LET r == WriteBatchChunked(root.children[1], arrow_index_offset[1],
                                  arrow_chunk_offset[1], length, table[1])
       IN /\ root' = [root EXCEPT !.children[1] = r.v]
          /\ arrow_index_offset' = <<r.arrow_index_offset>>
          /\ arrow_chunk_offset' = <<r.arrow_chunk_offset>>
          /\ call' = [length |-> length, column |-> 1,
                      index_before |-> arrow_index_offset[1],
                      chunk_before |-> arrow_chunk_offset[1],
                      st |-> r.st, numElements |-> r.v.numElements,
                      source |-> r.source, start |-> 0, clears |-> call.clears]
  /\ pc' = "filled"
  /\ UNCHANGED <<reader_vars, heap, iterator>>
  /\ UNCHANGED <<table, batch_size, numRows, i, added, closed, written,
                 next_orc_offset, builder>>

\* The caller's batch->clear() after a fill; call.clears counts them
FlushBatch ==
  /\ pc = "filled"
  /\ root' = clear(root)
  /\ call' = [call EXCEPT !.clears = @ + 1]
  /\ pc' = "chunk"
  /\ UNCHANGED <<reader_vars, heap, iterator>>
  /\ UNCHANGED <<table, batch_size, numRows, arrow_index_offset, arrow_chunk_offset,
                 i, added, closed, written, next_orc_offset, builder>>

NextEncode == EncodeCall \/ FlushBatch

SpecEncode == InitEncode /\ [][NextEncode]_vars

\* Every field batch below a struct batch, and below its struct-typed fields,
\* is marked null at destination offset p and has hasNulls set
RECURSIVE DescendantsNullAt(_, _)
DescendantsNullAt(batch, p) ==
  \A f \in 1..Len(batch.children) :
    LET field_batch == batch.children[f]
    IN /\ field_batch.hasNulls
       /\ ~field_batch.notNull[p + 1]
       /\ (field_batch.kind = "Struct" => DescendantsNullAt(field_batch, p))

\* C5: after a chunked WriteBatch call on a struct column, for every element
\* written whose top-level struct slot is null in the source chunk, every
\* descendant field batch (the fields, and the fields of struct-typed fields)
\* has notNull = false at the element's destination offset and hasNulls = true,
\* whatever the child arrays' own validity says.
C5_StructNullMarksDescendants ==
  (pc \in {"chunk", "filled"} /\ call.st = "OK" /\ table[1][1].type.id = "STRUCT") =>
    \A e \in 1..Len(call.source) :
      LET src == call.source[e]
      IN IsNull(table[1][src[2] + 1], src[3]) =>
           DescendantsNullAt(root.children[1], src[1])

\* The struct null rule for one slot: when slot q of the struct array is null,
\* each field batch of its struct batch is marked null at destination offset d
StructRuleAt(array, q, batch, d) ==
  IsNull(array, q) => \A f \in 1..Len(batch.children) : ~batch.children[f].notNull[d + 1]

\* The rule for the struct-typed fields of the element of a struct chunk that
\* was written to destination offset d, when the chunk has no nulls of its own
StructFieldRule(chunk, q, batch, d) ==
  null_count(chunk) = 0 =>
    \A f \in 1..Len(chunk.type.children) :
      chunk.type.children[f].id = "STRUCT" =>
        StructRuleAt(field(chunk, f), q, batch.children[f], d)

\* The rule for the struct-typed values of the valid list or map element of a
\* chunk that was written to destination offset d: value j of the element lies
\* at value_offset(q) + j in the values array and at offsets[d] + j in the
\* element batch
StructValueRule(chunk, q, batch, d) ==
  LET v == Len(chunk.type.children)
  IN (IsValid(chunk, q) /\ chunk.type.children[v].id = "STRUCT") =>
       \A j \in 0..(value_offset(chunk, q + 1) - value_offset(chunk, q) - 1) :
         StructRuleAt(chunk.child_data[v], value_offset(chunk, q) + j,
                      batch.children[v], batch.offsets[d + 1] + j)

\* C6: the struct null rule below the outermost level: for a struct that is a
\* field of a parent struct without nulls of its own, and for a struct among the
\* values of a list or map, wherever that struct's slot is null each of its
\* field batches has notNull = false at the corresponding destination offset.
C6_NestedStructNullMarksFields ==
  (pc \in {"chunk", "filled"} /\ call.st = "OK") =>
    \A e \in 1..Len(call.source) :
      LET src == call.source[e]
          chunk == table[1][src[2] + 1]
      IN CASE chunk.type.id = "STRUCT" ->
                StructFieldRule(chunk, src[3], root.children[1], src[1])
           [] chunk.type.id \in {"LIST", "MAP"} ->
                StructValueRule(chunk, src[3], root.children[1], src[1])
           [] OTHER -> TRUE

\* The offsets of a list or map batch over its first n entries start at 0 and
\* never decrease, and so do those of the batches below it over the entries
\* populated in them
RECURSIVE OffsetsWellFormed(_, _)
OffsetsWellFormed(batch, n) ==
  CASE batch.kind \in {"List", "Map"} ->
         n > 0 =>
           /\ batch.offsets[1] = 0
           /\ \A p \in 1..n : batch.offsets[p] <= batch.offsets[p + 1]
           /\ \A c \in 1..Len(batch.children) :
                OffsetsWellFormed(batch.children[c], batch.offsets[n + 1])
    [] batch.kind = "Struct" ->
         \A c \in 1..Len(batch.children) : OffsetsWellFormed(batch.children[c], n)
    [] OTHER -> TRUE

\* C7: after every fill of a column batch by the chunked WriteBatch - from one
\* chunk or several, into a fresh batch or one cleared and used again, for
\* lists and maps at the top, in a struct or in a list - the offsets of every
\* list and map batch over its populated range are non-decreasing and start
\* with offsets[0] = 0.
C7_OffsetsNonDecreasing ==
  (pc \in {"chunk", "filled"} /\ call.st = "OK") =>
    OffsetsWellFormed(root.children[1], call.numElements)

\* A list-of-lists batch filled a second time after a clear, the second fill
\* leaving inner lists with children behind an earlier inner list
C7_Witness ==
  /\ pc = "filled"
  /\ call.st = "OK"
  /\ call.clears >= 1
  /\ call.numElements >= 1
  /\ root.children[1].kind = "List"
  /\ root.children[1].children[1].kind = "List"
  /\ root.children[1].offsets[call.numElements + 1] >= 2
  /\ LET inner == root.children[1].children[1]
     IN inner.offsets[2] > 0 /\ inner.offsets[3] > inner.offsets[2]

\* ------------------------------------------------------------------------
\* The per-array WriteBatch called directly on list arrays, one array after
\* the other into one batch
\* ------------------------------------------------------------------------
\* [[1, 2], [], null, [3]]
ExampleList ==
  MakeArrayData(ListType(Int32), 4, 0, <<TRUE, TRUE, FALSE, TRUE>>, <<>>,
                <<0, 2, 2, 2, 3>>,
                <<MakeArrayData(Int32, 3, 0, NoBitmap, <<1, 2, 3>>, <<>>, <<>>)>>)

ListTypes ==
  {ListType(Int32), DataType("LARGE_LIST", <<Int32>>), FixedSizeListType(Int32, 2)}

InitArray ==
  /\ \/ table = <<<<ExampleList>>>>
     \/ \E type \in ListTypes : \E array \in Arrays(type, MaxLen + MaxOff, 1) :
          \E c \in Cuts(MaxLen + MaxOff) : table = <<ColumnOf(array, c[1], c[2])>>
  /\ batch_size = ChunkedLength(table[1])
  /\ root = RowBatchOf(table, batch_size)
  /\ arrow_index_offset = <<0>>
  /\ arrow_chunk_offset = <<0>>
  /\ numRows = 0
  /\ i = 0
  /\ pc = "array"
  /\ added = <<>>
  /\ closed = 0
  /\ NoReader
  /\ heap = <<>>
  /\ iterator = NoIterator
  /\ call = NoCall
  /\ written = <<>>
  /\ next_orc_offset = 0
  /\ builder = <<>>

\* WriteBatch(array, orc_offset, batch) of the next array, behind the last
WriteArray ==
  /\ pc = "array"
  /\ i < Len(table[1])
  /\ LET array == table[1][i + 1]
         r == WriteBatch(array, next_orc_offset, root.children[1], FALSE)
     IN /\ root' = [root EXCEPT !.children[1] = r.v]
        /\ call' = [NoCall EXCEPT !.st = r.st, !.length = array.length, !.column = 1,
                                  !.numElements = r.v.numElements]
        /\ next_orc_offset' = next_orc_offset + array.length
  /\ i' = i + 1
  /\ UNCHANGED <<reader_vars, heap, iterator>>
  /\ UNCHANGED <<table, batch_size, numRows, arrow_index_offset, arrow_chunk_offset,
                 pc, added, closed, written, builder>>

SpecArray == InitArray /\ [][WriteArray]_vars

\* The rows of the children of the valid lists of a list array, in order
ValidChildRows(array) ==
  Flatten([p \in 1..array.length |->
             IF IsValid(array, p - 1)
             THEN ArrayRows(Slice(values(array), value_offset(array, p - 1),
                                  value_offset(array, p) - value_offset(array, p - 1)))
             ELSE <<>>])

\* What the writer has to leave in the list batch for the array written at
\* destination offset o
ListEncodedAt(array, batch, o) ==
  /\ \A p \in 0..(array.length - 1) :
       /\ batch.notNull[o + p + 1] = IsValid(array, p)
       /\ batch.offsets[o + p + 2] - batch.offsets[o + p + 1]
            = (IF IsValid(array, p)
               THEN value_offset(array, p + 1) - value_offset(array, p) ELSE 0)
  /\ SubSeq(RowsOf(batch.children[1], batch.offsets[o + array.length + 1]),
            batch.offsets[o + 1] + 1, batch.offsets[o + array.length + 1])
       = ValidChildRows(array)

\* C8: the list writer leaves, for every position of every list array written,
\* notNull equal to the array's validity and offsets[i+1] - offsets[i] equal to
\* the list's length when valid and 0 when null, and the element batch holds the
\* children of the valid lists only, in order; [[1,2],[],null,[3]] gives
\* offsets [0,2,2,2,3] and notNull false at index 2 only.
C8_ListEncoding ==
  (pc = "array" /\ call.st = "OK") =>
    /\ \A k \in 1..i :
         ListEncodedAt(table[1][k], root.children[1],
                       SumSeq([c \in 1..(k - 1) |-> table[1][c].length]))
    /\ (i >= 1 => root.children[1].offsets[1] = 0)
    /\ (table[1] = <<ExampleList>> /\ i = 1) =>
         /\ root.children[1].offsets = <<0, 2, 2, 2, 3>>
         /\ root.children[1].notNull = <<TRUE, TRUE, FALSE, TRUE>>
         /\ RowsOf(root.children[1].children[1], 3)
              = <<<<TRUE, 1>>, <<TRUE, 2>>, <<TRUE, 3>>>>

\* Two slices of one list array written one behind the other, the second a
\* slice with a null list that spans children and a valid list behind it
C8_Witness ==
  /\ pc = "array"
  /\ call.st = "OK"
  /\ i = 2
  /\ table[1][1].length > 0
  /\ table[1][2].offset > 0
  /\ table[1][2].type.id = "LIST"
  /\ \E p \in 0..(table[1][2].length - 2) :
       /\ IsNull(table[1][2], p)
       /\ value_offset(table[1][2], p + 1) > value_offset(table[1][2], p)
       /\ IsValid(table[1][2], p + 1)
       /\ value_offset(table[1][2], p + 2) > value_offset(table[1][2], p + 1)

\* ------------------------------------------------------------------------
\* Decode path: Arrow array builders
\* ------------------------------------------------------------------------
\* An ArrayBuilder.  valid holds one flag per slot appended; values the value
\* of each slot of a leaf builder; offsets the length of the value builder at
\* each slot of a list or map builder; children are the field builders of a
\* struct, <<value_builder>> of a list, <<key_builder, item_builder>> of a map.
MakeBuilder(children) ==
  [valid |-> <<>>, values |-> <<>>, offsets |-> <<>>, children |-> children]

\* The builder tree of the Arrow type an ORC type converts to
RECURSIVE BuilderOf(_)
BuilderOf(orc_type) ==
  MakeBuilder([k \in 1..Len(orc_type.subtypes) |-> BuilderOf(orc_type.subtypes[k])])

\* ArrayBuilder::length()
BuilderLength(abuilder) == Len(abuilder.valid)

\* valid_bytes: nullptr unless batch->hasNulls, else notNull.data() + offset
ValidBytes_IgnoreOffset(batch, offset, length) ==
  IF batch.hasNulls THEN SubSeq(batch.notNull, 1, length) ELSE NoBitmap

ValidBytes(batch, offset, length) ==
  IF batch.hasNulls THEN SubSeq(batch.notNull, offset + 1, offset + length)
  ELSE NoBitmap

\* builder->AppendValues(values, length, valid_bytes): every slot valid when
\* valid_bytes is nullptr; the values are appended whatever their flag
BuilderAppendValues(abuilder, vals, valid_bytes) ==
  [abuilder EXCEPT
     !.valid = @ \o (IF valid_bytes = NoBitmap THEN Repeat(TRUE, Len(vals))
                     ELSE valid_bytes),
     !.values = @ \o vals]

\* StructBuilder::AppendValues(length, valid_bytes)
StructAppendValues(abuilder, length, valid_bytes) ==
  [abuilder EXCEPT
     !.valid = @ \o (IF valid_bytes = NoBitmap THEN Repeat(TRUE, length)
                     ELSE valid_bytes)]

\* builder->Append(value) and builder->AppendNull() of a leaf builder
BuilderAppend(abuilder, v) ==
  [abuilder EXCEPT !.valid = Append(@, TRUE), !.values = Append(@, v)]

BuilderAppendNull(abuilder, empty) ==
  [abuilder EXCEPT !.valid = Append(@, FALSE), !.values = Append(@, empty)]

\* ListBuilder / MapBuilder ::Append() and ::AppendNull(): a new slot that
\* starts at the current length of the value (key) builder
ListAppend(abuilder, is_valid) ==
  [abuilder EXCEPT !.valid = Append(@, is_valid),
                   !.offsets = Append(@, BuilderLength(abuilder.children[1]))]

CastInt_Unsigned(bits, v) == IF bits >= 32 THEN v ELSE v % (2 ^ bits)

\* static_cast<TargetType>(source[index]) to a signed integer of `bits` bits;
\* the integers of the model lie within 32 bits, which such a cast keeps
CastInt(bits, v) ==
  IF bits >= 32 THEN v
  ELSE ((v + 2 ^ (bits - 1)) % (2 ^ bits)) - 2 ^ (bits - 1)

\* AppendNumericBatch<BuilderType, BatchType, ElemType>
AppendNumericBatch(batch, offset, length, abuilder) ==
  IF length = 0 THEN Return("OK", abuilder)
  ELSE Return("OK", BuilderAppendValues(
                      abuilder, SubSeq(batch.data, offset + 1, offset + length),
                      ValidBytes(batch, offset, length)))

\* AppendNumericBatchCast<BuilderType, TargetType, BatchType, SourceType>;
\* bits = 0 stands for the floating point target
AppendNumericBatchCast(bits, batch, offset, length, abuilder) ==
  IF length = 0 THEN Return("OK", abuilder)
  ELSE Return("OK", BuilderAppendValues(
                      abuilder,
                      [j \in 1..length |->
                         IF bits = 0 THEN batch.data[offset + j]
                         ELSE CastInt(bits, batch.data[offset + j])],
                      ValidBytes(batch, offset, length)))

AppendBoolBatch(batch, offset, length, abuilder) ==
  IF length = 0 THEN Return("OK", abuilder)
  ELSE Return("OK", BuilderAppendValues(
                      abuilder, [j \in 1..length |-> batch.data[offset + j] /= 0],
                      ValidBytes(batch, offset, length)))

AppendTimestampBatch_DropNanos(batch, offset, length, abuilder) ==
  Return("OK", BuilderAppendValues(
                 abuilder, [j \in 1..length |-> batch.data[offset + j] * kOneSecondNanos],
                 ValidBytes(batch, offset, length)))

AppendTimestampBatch(batch, offset, length, abuilder) ==
  IF length = 0 THEN Return("OK", abuilder)
  ELSE Return("OK", BuilderAppendValues(
                      abuilder,
                      [j \in 1..length |->
                         batch.data[offset + j] * kOneSecondNanos
                           + batch.nanoseconds[offset + j]],
                      ValidBytes(batch, offset, length)))

\* !has_nulls || batch->notNull[i]
RowIsSet_Always(batch, row) == TRUE

RowIsSet_FlagOnly(batch, row) == batch.notNull[row + 1]

RowIsSet(batch, row) == ~batch.hasNulls \/ batch.notNull[row + 1]

\* The loops of AppendBinaryBatch, AppendFixedBinaryBatch and
\* AppendDecimalBatch from row on: Append the value of a row that is not
\* null, AppendNull otherwise.  A binary value is length[i] bytes at data[i],
\* a fixed-size binary value the builder's byte_width bytes at data[i], a
\* decimal value values[i].
RECURSIVE AppendRows(_, _, _, _, _)
AppendRows(batch, row, end, abuilder, mode) ==
  IF row >= end THEN Return("OK", abuilder)
  ELSE AppendRows(
         batch, row + 1, end,
         IF RowIsSet(batch, row)
         THEN BuilderAppend(
                abuilder,
                CASE mode = "binary" -> SubSeq(batch.bytes[row + 1], 1, batch.length[row + 1])
                  [] mode = "fixed" -> batch.bytes[row + 1]
                  [] OTHER -> batch.data[row + 1])
         ELSE BuilderAppendNull(abuilder, IF mode = "decimal" THEN 0 ELSE <<>>),
         mode)

AppendBinaryBatch(batch, offset, length, abuilder) ==
  AppendRows(batch, offset, length + offset, abuilder, "binary")

AppendFixedBinaryBatch(batch, offset, length, abuilder) ==
  AppendRows(batch, offset, length + offset, abuilder, "fixed")

\* Decimal128VectorBatch for precision 0 or > 18, Decimal64VectorBatch
\* otherwise; both branches read values[i] of the batch
AppendDecimalBatch(type, batch, offset, length, abuilder) ==
  IF type.precision = 0 \/ type.precision > 18
  THEN IF checked_cast("Decimal128", batch)
       THEN AppendRows(batch, offset, length + offset, abuilder, "decimal")
       ELSE Return("BadCast", abuilder)
  ELSE IF checked_cast("Decimal64", batch)
       THEN AppendRows(batch, offset, length + offset, abuilder, "decimal")
       ELSE Return("BadCast", abuilder)

\* type == nullptr
NullType == OrcType("nullptr", <<>>)

RECURSIVE AppendBatch(_, _, _, _, _)
RECURSIVE AppendStructFields(_, _, _, _, _, _)
RECURSIVE AppendListLoop(_, _, _, _, _)
RECURSIVE AppendMapLoop(_, _, _, _, _)

\* The loop of AppendStructBatch over the field builders, from field k on
AppendStructFields(type, batch, offset, length, abuilder, k) ==
  IF k > Len(abuilder.children) THEN Return("OK", abuilder)
  ELSE LET r == AppendBatch(type.subtypes[k], batch.children[k], offset, length,
                            abuilder.children[k])
           next == [abuilder EXCEPT !.children[k] = r.v]
       IN IF r.st /= "OK" THEN Return(r.st, next)
          ELSE AppendStructFields(type, batch, offset, length, next, k + 1)

AppendStructBatch(type, batch, offset, length, abuilder) ==
  AppendStructFields(type, batch, offset, length,
                     StructAppendValues(abuilder, length,
                                        ValidBytes(batch, offset, length)),
                     1)

\* end - start of row: the number of child values of a list or map slot
ElementCount(batch, row) == batch.offsets[row + 2] - batch.offsets[row + 1]

\* The loop of AppendListBatch from row on
AppendListLoop(type, batch, row, end, abuilder) ==
  IF row >= end THEN Return("OK", abuilder)
  ELSE IF RowIsSet(batch, row)
       THEN LET start == batch.offsets[row + 1]
                appended == ListAppend(abuilder, TRUE)
                r == AppendBatch(type.subtypes[1], batch.children[1], start,
                                 ElementCount(batch, row), appended.children[1])
                next == [appended EXCEPT !.children[1] = r.v]
            IN IF r.st /= "OK" THEN Return(r.st, next)
               ELSE AppendListLoop(type, batch, row + 1, end, next)
       ELSE AppendListLoop(type, batch, row + 1, end, ListAppend(abuilder, FALSE))

AppendListBatch(type, batch, offset, length, abuilder) ==
  AppendListLoop(type, batch, offset, length + offset, abuilder)

\* The loop of AppendMapBatch from row on
AppendMapLoop(type, batch, row, end, abuilder) ==
  IF row >= end THEN Return("OK", abuilder)
  ELSE IF RowIsSet(batch, row)
       THEN LET start == batch.offsets[row + 1]
                appended == ListAppend(abuilder, TRUE)
                rk == AppendBatch(type.subtypes[1], batch.children[1], start,
                                  ElementCount(batch, row), appended.children[1])
                keyed == [appended EXCEPT !.children[1] = rk.v]
                ri == AppendBatch(type.subtypes[2], batch.children[2], start,
                                  ElementCount(batch, row), appended.children[2])
                next == [keyed EXCEPT !.children[2] = ri.v]
            IN IF rk.st /= "OK" THEN Return(rk.st, keyed)
               ELSE IF ri.st /= "OK" THEN Return(ri.st, next)
               ELSE AppendMapLoop(type, batch, row + 1, end, next)
       ELSE AppendMapLoop(type, batch, row + 1, end, ListAppend(abuilder, FALSE))

AppendMapBatch(type, batch, offset, length, abuilder) ==
  AppendMapLoop(type, batch, offset, length + offset, abuilder)

\* Status::NotImplemented("Not implemented type kind: ", kind)
NotImplemented_FallThrough(kind, v) == [st |-> "OK", v |-> v, msg |-> ""]

NotImplemented(kind, v) == [st |-> "NotImplemented", v |-> v, msg |-> kind]

\* if (type == nullptr)
TypeIsNull_Never(type) == FALSE

TypeIsNull(type) == type = NullType

\* arrow::adapters::orc::AppendBatch(type, batch, offset, length, builder)
AppendBatch(type, batch, offset, length, abuilder) ==
  IF TypeIsNull(type) THEN Return("OK", abuilder)
  ELSE
    LET kind == type.kind
    IN CASE kind = "STRUCT" -> AppendStructBatch(type, batch, offset, length, abuilder)
         [] kind = "LIST" -> AppendListBatch(type, batch, offset, length, abuilder)
         [] kind = "MAP" -> AppendMapBatch(type, batch, offset, length, abuilder)
         [] kind = "LONG" -> AppendNumericBatch(batch, offset, length, abuilder)
         [] kind = "INT" -> AppendNumericBatchCast(32, batch, offset, length, abuilder)
         [] kind = "SHORT" -> AppendNumericBatchCast(16, batch, offset, length, abuilder)
         [] kind = "BYTE" -> AppendNumericBatchCast(8, batch, offset, length, abuilder)
         [] kind = "DOUBLE" -> AppendNumericBatch(batch, offset, length, abuilder)
         [] kind = "FLOAT" -> AppendNumericBatchCast(0, batch, offset, length, abuilder)
         [] kind = "BOOLEAN" -> AppendBoolBatch(batch, offset, length, abuilder)
         [] kind \in {"VARCHAR", "STRING"} ->
              AppendBinaryBatch(batch, offset, length, abuilder)
         [] kind = "BINARY" -> AppendBinaryBatch(batch, offset, length, abuilder)
         [] kind = "CHAR" -> AppendFixedBinaryBatch(batch, offset, length, abuilder)
         [] kind = "DATE" -> AppendNumericBatchCast(32, batch, offset, length, abuilder)
         [] kind = "TIMESTAMP" -> AppendTimestampBatch(batch, offset, length, abuilder)
         [] kind = "DECIMAL" -> AppendDecimalBatch(type, batch, offset, length, abuilder)
         [] OTHER -> NotImplemented(kind, abuilder)

\* ------------------------------------------------------------------------
\* AppendBatch called on batches as a reader hands them over
\* ------------------------------------------------------------------------
\* notNull flags of n rows, at most MaxNulls of them false
Flags(n) == {f \in [1..n -> BOOLEAN] : Cardinality({p \in 1..n : ~f[p]}) <= MaxNulls}

\* Batches of n rows of a type.  hasNulls and the flags vary independently:
\* flags are meaningful only under hasNulls.  Integer data exceeds 8 bits in
\* the later rows; map keys carry no nulls.
RECURSIVE OrcBatches(_, _, _)
OrcBatches(orc_type, n, seed) ==
  LET kind == BatchKindOf(orc_type)
      filled == [MakeBatch(kind, n, <<>>) EXCEPT !.numElements = n]
      own == {[filled EXCEPT !.hasNulls = h, !.notNull = f] :
                h \in BOOLEAN, f \in Flags(n)}
      sub(k, m) == OrcBatches(orc_type.subtypes[k], m, 2 * seed + k - 1)
  IN CASE kind = "Struct" /\ Len(orc_type.subtypes) = 1 ->
            {[b EXCEPT !.children = <<c>>] : b \in own, c \in sub(1, n)}
       [] kind = "Struct" /\ Len(orc_type.subtypes) = 2 ->
            {[b EXCEPT !.children = <<c, d>>] :
               b \in own, c \in sub(1, n), d \in sub(2, n)}
       [] kind = "List" ->
            UNION {{[b EXCEPT !.offsets = o, !.children = <<c>>] :
                      b \in own, c \in sub(1, o[Len(o)])} :
                   o \in OffsetBuffers(n)}
       [] kind = "Map" ->
            UNION {{[b EXCEPT !.offsets = o, !.children = <<c, d>>] :
                      b \in own,
                      c \in {k \in sub(1, o[Len(o)]) : ~k.hasNulls /\ FALSE \notin
                               {k.notNull[p] : p \in 1..Len(k.notNull)}},
                      d \in sub(2, o[Len(o)])} :
                   o \in OffsetBuffers(n)}
       [] kind = "String" ->
            LET width(p) == IF orc_type.kind = "CHAR" THEN 1 ELSE p % 3
            IN {[b EXCEPT !.bytes = [p \in 1..n |-> Repeat(seed, width(p))],
                          !.length = [p \in 1..n |-> width(p)]] : b \in own}
       [] kind = "Timestamp" ->
            {[b EXCEPT !.data = [p \in 1..n |-> p % 2],
                       !.nanoseconds = [p \in 1..n |-> seed + p]] : b \in own}
       [] kind \in {"Long", "Double", "Decimal64", "Decimal128"} ->
            {[b EXCEPT !.data = [p \in 1..n |->
                                   IF orc_type.kind = "BOOLEAN" THEN (p + seed) % 2
                                   ELSE 100 * p + seed]] : b \in own}
       [] OTHER -> own

LeafKinds ==
  {"BOOLEAN", "BYTE", "SHORT", "INT", "LONG", "FLOAT", "DOUBLE", "STRING", "VARCHAR",
   "CHAR", "BINARY", "DATE", "TIMESTAMP"}

\* Every kind AppendBatch has a case for, decimals of both widths, nested
\* types, and a kind it has no case for
DecodeTypes ==
  {OrcType(k, <<>>) : k \in LeafKinds} \cup
  {OrcDecimalType(10, 2), OrcDecimalType(20, 2), OrcDecimalType(0, 2)} \cup
  {OrcType("STRUCT", <<OrcType("INT", <<>>), OrcType("STRING", <<>>)>>),
   OrcType("STRUCT", <<OrcType("LIST", <<OrcType("INT", <<>>)>>)>>),
   OrcType("LIST", <<OrcType("INT", <<>>)>>),
   OrcType("LIST", <<OrcType("STRUCT", <<OrcType("INT", <<>>)>>)>>),
   OrcType("MAP", <<OrcType("INT", <<>>), OrcType("STRING", <<>>)>>),
   OrcType("UNION", <<>>)}

\* table holds the ORC type of the column, root the batch read, builder the
\* column's builder; i counts the AppendBatch calls made
InitDecode ==
  /\ \E type \in DecodeTypes : \E n \in 0..MaxLen : \E batch \in OrcBatches(type, n, 1) :
       /\ table = <<type>>
       /\ root = batch
       /\ builder = BuilderOf(type)
  /\ batch_size = MaxLen
  /\ arrow_index_offset = <<0>>
  /\ arrow_chunk_offset = <<0>>
  /\ numRows = 0
  /\ i = 0
  /\ pc = "decode"
  /\ added = <<>>
  /\ closed = 0
  /\ NoReader
  /\ heap = <<>>
  /\ iterator = NoIterator
  /\ call = [st |-> "", offset |-> 0, length |-> 0, before |-> <<>>]
  /\ written = <<>>
  /\ next_orc_offset = 0

\* AppendBatch(type, batch, offset, length, builder) over any range of the
\* batch, on the builder the calls before have left
Decode ==
  /\ pc = "decode"
  /\ i < MaxChunks
  /\ \E offset \in 0..root.numElements : \E length \in 0..(root.numElements - offset) :
       LET r == AppendBatch(table[1], root, offset, length, builder)
       IN /\ builder' = r.v
          /\ call' = [st |-> r.st, offset |-> offset, length |-> length,
                      before |-> builder]
  /\ i' = i + 1
  /\ UNCHANGED <<reader_vars, heap, iterator>>
  /\ UNCHANGED <<table, batch_size, numRows, arrow_index_offset, arrow_chunk_offset,
                 root, pc, added, closed, written, next_orc_offset>>

SpecDecode == InitDecode /\ [][Decode]_vars

\* Row `row` of a batch is null: hasNulls is set and its notNull flag is false
IsNullRow(batch, row) == batch.hasNulls /\ ~batch.notNull[row + 1]

\* The child values that belong to slot `slot` of a list or map builder
SlotChildren(abuilder, slot) ==
  (IF slot < BuilderLength(abuilder) THEN abuilder.offsets[slot + 1]
   ELSE BuilderLength(abuilder.children[1])) - abuilder.offsets[slot]

\* C9: decoding rows [offset, offset + length) of a list or map batch appends
\* one slot per row: a null slot with no child values for a null row, and for
\* a valid row a valid slot with exactly offsets[i+1] - offsets[i] child values
\* (as many keys as items for a map), so that a valid empty list and a null
\* list stay distinct.
C9_ListMapDecode ==
  (pc = "decode" /\ i >= 1 /\ call.st = "OK" /\ table[1].kind \in {"LIST", "MAP"}) =>
    LET n0 == BuilderLength(call.before)
        count == [j \in 1..call.length |->
                    IF IsNullRow(root, call.offset + j - 1) THEN 0
                    ELSE root.offsets[call.offset + j + 1] - root.offsets[call.offset + j]]
    IN /\ BuilderLength(builder) = n0 + call.length
       /\ \A j \in 1..call.length :
            /\ builder.valid[n0 + j] = ~IsNullRow(root, call.offset + j - 1)
            /\ SlotChildren(builder, n0 + j) = count[j]
       /\ \A c \in 1..Len(builder.children) :
            BuilderLength(builder.children[c])
              = BuilderLength(call.before.children[c]) + SumSeq(count)

\* A map batch decoded behind earlier slots: a null row whose offsets span
\* child values, then a valid row with child values
C9_Witness ==
  /\ pc = "decode"
  /\ i = 2
  /\ call.st = "OK"
  /\ table[1].kind = "MAP"
  /\ BuilderLength(call.before) > 0
  /\ call.offset = 0
  /\ call.length = 2
  /\ IsNullRow(root, 0)
  /\ root.offsets[2] > root.offsets[1]
  /\ ~IsNullRow(root, 1)
  /\ root.offsets[3] > root.offsets[2]

\* C10: for every kind AppendBatch has a case for, the call succeeds and grows
\* the builder by exactly `length` slots (none for length = 0), the slots
\* appended before stay, and appended slot j is null exactly when the batch
\* has hasNulls set and notNull[offset + j] is false.
C10_AppendsExactlyLength ==
  (pc = "decode" /\ i >= 1) =>
    /\ call.st = (IF table[1].kind = "UNION" THEN "NotImplemented" ELSE "OK")
    /\ call.st = "OK" =>
         LET n0 == BuilderLength(call.before)
         IN /\ BuilderLength(builder) = n0 + call.length
            /\ SubSeq(builder.valid, 1, n0) = call.before.valid
            /\ \A j \in 0..(call.length - 1) :
                 builder.valid[n0 + j + 1] = ~IsNullRow(root, call.offset + j)

\* A struct batch decoded from offset 1 behind earlier slots, the row read
\* being null under hasNulls
C10_Witness ==
  /\ pc = "decode"
  /\ i = 2
  /\ call.st = "OK"
  /\ table[1].kind = "STRUCT"
  /\ BuilderLength(call.before) > 0
  /\ call.offset = 1
  /\ call.length = 1
  /\ IsNullRow(root, 1)
  /\ ~builder.valid[BuilderLength(builder)]

\* ------------------------------------------------------------------------
\* AppendBatch called without a type
\* ------------------------------------------------------------------------
\* A batch pointer that must not be dereferenced
NoBatch == <<>>

\* Columns of a leaf and of a nested kind, for the calls made with type == nullptr
InitNull == InitDecode /\ table[1].kind \in {"INT", "LIST"}

\* AppendBatch(nullptr, batch, offset, length, builder): the batch is the one
\* read or no batch at all, offset and length are any numbers, in range or not
DecodeNull ==
  /\ pc = "decode"
  /\ i < MaxChunks
  /\ \E batch \in {root, NoBatch} : \E offset \in -1..(MaxLen + 1) :
       \E length \in -1..(MaxLen + 1) :
         LET r == AppendBatch(NullType, batch, offset, length, builder)
         IN /\ builder' = r.v
            /\ call' = [st |-> r.st, offset |-> offset, length |-> length,
                        before |-> builder]
  /\ i' = i + 1
  /\ pc' = "null"
  /\ UNCHANGED <<reader_vars, heap, iterator>>
  /\ UNCHANGED <<table, batch_size, numRows, arrow_index_offset, arrow_chunk_offset,
                 root, added, closed, written, next_orc_offset>>

NextNull == Decode \/ DecodeNull

SpecNull == InitNull /\ [][NextNull]_vars

\* C11: AppendBatch called with type == nullptr returns OK and leaves the
\* builder as it was, whatever the offset and length, and gives that same
\* result for the batch read and for a batch that cannot be read.
C11_NullTypeIsNoOp ==
  /\ pc = "null" => (call.st = "OK" /\ builder = call.before)
  /\ \A batch \in {root, NoBatch} : \A offset, length \in -1..(MaxLen + 1) :
       AppendBatch(NullType, batch, offset, length, builder) = Return("OK", builder)

\* A null-type call made, with a length greater than 0 and a batch of rows at
\* hand, on a builder that already holds slots
C11_Witness ==
  /\ pc = "null"
  /\ i = 2
  /\ call.length > 0
  /\ root.numElements > 0
  /\ BuilderLength(call.before) > 0
  /\ builder = call.before

\* ------------------------------------------------------------------------
\* The two dispatchers called on kinds with and without a case of their own
\* ------------------------------------------------------------------------
\* Arrow types the per-array WriteBatch has no case for, and a timestamp whose
\* unit is none of the four
UnsupportedTypes ==
  {DataType(k, <<>>) :
     k \in {"NA", "UINT8", "UINT16", "UINT32", "UINT64", "HALF_FLOAT", "TIME32",
            "TIME64", "INTERVAL", "DURATION", "SPARSE_UNION", "DENSE_UNION",
            "EXTENSION"}} \cup
  {DataType("DICTIONARY", <<Int32>>), TimestampType("UNKNOWN")}

\* Types of each family of cases of the per-array WriteBatch
SupportedTypes ==
  {Int32, DataType("STRING", <<>>), TimestampType("MICRO"), Decimal128Type(19, 2),
   StructType(<<Int32>>), ListType(Int32)}

\* ORC kinds AppendBatch has no case for, and kinds it has a case for
DispatchKinds ==
  {OrcType(k, <<>>) : k \in {"UNION", "TIMESTAMP_INSTANT", "INT", "STRING"}} \cup
  {OrcType("LIST", <<OrcType("INT", <<>>)>>)}

\* The batch handed to WriteBatch with an array: the batch of the array's ORC
\* type where there is one, else a batch of integers; its buffers hold what
\* an earlier use has left in them
DispatchBatches(type, cap) ==
  LET t == GetORCType(type)
      fresh == IF t.st = "OK" THEN createRowBatch(t.v, cap)
               ELSE MakeBatch("Long", cap, <<>>)
  IN {fresh} \cup
     (IF fresh.kind = "Long"
      THEN {[fresh EXCEPT !.data = [p \in 1..cap |-> 70 + p], !.hasNulls = TRUE,
                          !.notNull = [p \in 1..cap |-> p % 2 = 0],
                          !.numElements = cap]}
      ELSE {})

\* Where in the batch the array is aimed: a list batch holds offsets behind
\* its start only once the lists before have been written
DispatchOffsets(type) == IF type.id = "LIST" THEN {0} ELSE 0..MaxOff

InitDispatch ==
  /\ \/ /\ \E type \in DispatchKinds : \E n \in 0..MaxLen :
             \E batch \in OrcBatches(type, n, 1) :
               /\ table = <<type>>
               /\ root = batch
               /\ builder = BuilderOf(type)
        /\ pc = "decode"
        /\ call = [st |-> "", offset |-> 0, length |-> 0, before |-> <<>>]
        /\ next_orc_offset = 0
     \/ /\ \E type \in UnsupportedTypes \cup SupportedTypes : \E n \in 0..MaxLen :
             \E array \in Arrays(type, n, 1) : \E o \in DispatchOffsets(type) :
               \E batch \in DispatchBatches(type, MaxLen + MaxOff) :
                 /\ table = <<<<array>>>>
                 /\ root = MakeBatch("Struct", MaxLen + MaxOff, <<batch>>)
                 /\ next_orc_offset = o
                 /\ builder = IF GetORCType(type).st = "OK"
                              THEN BuilderOf(GetORCType(type).v) ELSE <<>>
        /\ pc = "array"
        /\ call = [st |-> "", orc_offset |-> 0, before |-> <<>>, append_st |-> ""]
  /\ batch_size = MaxLen
  /\ arrow_index_offset = <<0>>
  /\ arrow_chunk_offset = <<0>>
  /\ numRows = 0
  /\ i = 0
  /\ added = <<>>
  /\ closed = 0
  /\ NoReader
  /\ heap = <<>>
  /\ iterator = NoIterator
  /\ written = <<>>

\* WriteBatch(array, orc_offset, batch) called once on the array
DispatchWrite ==
  /\ pc = "array"
  /\ i = 0
  /\ LET r == WriteBatch(table[1][1], next_orc_offset, root.children[1], FALSE)
     IN /\ root' = [root EXCEPT !.children[1] = r.v]
        /\ call' = [call EXCEPT !.st = r.st, !.orc_offset = next_orc_offset,
                                !.before = root.children[1]]
  /\ i' = 1
  /\ UNCHANGED <<reader_vars, heap, iterator>>
  /\ UNCHANGED <<table, batch_size, numRows, arrow_index_offset, arrow_chunk_offset,
                 pc, added, closed, written, next_orc_offset, builder>>

\* AppendBatch(type, batch, orc_offset, length, builder) on the batch the
\* array was aimed at, with the ORC type of the array
DispatchAppend ==
  /\ pc = "array"
  /\ i = 1
  /\ GetORCType(table[1][1].type).st = "OK"
  /\ LET r == AppendBatch(GetORCType(table[1][1].type).v, root.children[1],
                          next_orc_offset, table[1][1].length, builder)
     IN /\ builder' = r.v
        /\ call' = [call EXCEPT !.append_st = r.st]
  /\ pc' = "appended"
  /\ UNCHANGED <<reader_vars, heap, iterator>>
  /\ UNCHANGED <<table, batch_size, numRows, arrow_index_offset, arrow_chunk_offset,
                 root, i, added, closed, written, next_orc_offset>>

NextDispatch == Decode \/ DispatchWrite \/ DispatchAppend

SpecDispatch == InitDispatch /\ [][NextDispatch]_vars

\* The type tags each dispatcher has a routine for
DecodeSupported(type) ==
  type.kind \in LeafKinds \cup {"DECIMAL", "STRUCT", "LIST", "MAP"}

EncodeSupported(type) ==
  /\ type.id \in {"BOOL", "INT8", "INT16", "INT32", "INT64", "FLOAT", "DOUBLE",
                  "STRING", "LARGE_STRING", "BINARY", "LARGE_BINARY",
                  "FIXED_SIZE_BINARY", "DATE32", "DATE64", "TIMESTAMP", "DECIMAL128",
                  "STRUCT", "LIST", "LARGE_LIST", "FIXED_SIZE_LIST", "MAP"}
  /\ type.id = "TIMESTAMP" => type.unit \in {"SECOND", "MILLI", "MICRO", "NANO"}

\* C12: AppendBatch ends NotImplemented, with the kind in the message and the
\* builder as it was, exactly for the kinds it has no routine for; the
\* per-array WriteBatch ends Invalid, with every buffer of the batch as it was,
\* exactly for the type tags (and timestamp units) it has no routine for.
C12_UnsupportedKindsFail ==
  /\ (pc = "decode" /\ i >= 1) =>
       /\ (call.st = "NotImplemented") <=> ~DecodeSupported(table[1])
       /\ DecodeSupported(table[1]) => call.st = "OK"
       /\ ~DecodeSupported(table[1]) =>
            /\ builder = call.before
            /\ \A offset \in 0..root.numElements :
                 \A length \in 0..(root.numElements - offset) :
                   AppendBatch(table[1], root, offset, length, builder)
                     = [st |-> "NotImplemented", v |-> builder, msg |-> table[1].kind]
  /\ (pc \in {"array", "appended"} /\ i >= 1) =>
       /\ (call.st = "Invalid") <=> ~EncodeSupported(table[1][1].type)
       /\ EncodeSupported(table[1][1].type) => call.st = "OK"
       /\ ~EncodeSupported(table[1][1].type) =>
            root.children[1] = [call.before EXCEPT !.numElements = call.orc_offset]
  /\ pc = "appended" =>
       LET type == GetORCType(table[1][1].type).v
       IN /\ (call.append_st = "NotImplemented") <=> ~DecodeSupported(type)
          /\ DecodeSupported(type) => call.append_st = "OK"
          /\ ~DecodeSupported(type) => builder = BuilderOf(type)

\* Both dispatchers have refused a column of unions: WriteBatch the array of
\* rows, aimed behind the start of the batch, and AppendBatch the batch
C12_Witness ==
  /\ pc = "appended"
  /\ table[1][1].type.id = "DENSE_UNION"
  /\ table[1][1].length > 0
  /\ call.orc_offset > 0
  /\ call.st = "Invalid"
  /\ call.append_st = "NotImplemented"

\* WriteBatch(array, 0, batch) of the one array of the column
ColumnWrite ==
  /\ pc = "array"
  /\ LET r == WriteBatch(table[1][1], 0, root.children[1], FALSE)
     IN /\ root' = [root EXCEPT !.children[1] = r.v]
        /\ call' = [call EXCEPT !.st = r.st]
  /\ pc' = "written"
  /\ UNCHANGED <<reader_vars, heap, iterator>>
  /\ UNCHANGED <<table, batch_size, numRows, arrow_index_offset, arrow_chunk_offset,
                 i, added, closed, written, next_orc_offset, builder>>

\* ------------------------------------------------------------------------
\* Decimal columns of every precision, written and read back
\* ------------------------------------------------------------------------
MaxPrecision == 38   \* largest precision of a decimal128

\* The batch liborc hands to the reader for a decimal column of a file
FileBatches(orc_type, n) == OrcBatches(orc_type, n, 1)

\* Either an array of decimal128(p, s), 1 <= p <= 38, to be written to the
\* batch of its ORC type and read back, or a batch as read from a file whose
\* decimal type has any precision, 0 included.  batch_size is the row count.
InitDecimal ==
  /\ \E n \in 0..MaxLen : \E s \in {0, 2} :
       /\ batch_size = n
       /\ \/ \E p \in 1..MaxPrecision : \E array \in Arrays(Decimal128Type(p, s), n, 1) :
               /\ table = <<<<array>>>>
               /\ root = RowBatchOf(table, MaxLen)
               /\ pc = "array"
               /\ call = [st |-> "", orc_type |-> GetORCType(array.type).v,
                          append_st |-> "", out_type |-> <<>>]
          \/ \E p \in 0..MaxPrecision : \E batch \in FileBatches(OrcDecimalType(p, s), n) :
               /\ table = <<>>
               /\ root = MakeBatch("Struct", n, <<batch>>)
               /\ pc = "written"
               /\ call = [st |-> "OK", orc_type |-> OrcDecimalType(p, s),
                          append_st |-> "", out_type |-> <<>>]
  /\ builder = MakeBuilder(<<>>)
  /\ arrow_index_offset = <<0>>
  /\ arrow_chunk_offset = <<0>>
  /\ numRows = 0
  /\ i = 0
  /\ added = <<>>
  /\ closed = 0
  /\ NoReader
  /\ heap = <<>>
  /\ iterator = NoIterator
  /\ written = <<>>
  /\ next_orc_offset = 0

\* GetArrowType(type) and AppendBatch(type, batch, 0, rows, builder)
DecimalAppend ==
  /\ pc = "written"
  /\ call.st = "OK"
  /\ LET r == AppendBatch(call.orc_type, root.children[1], 0, batch_size, builder)
     IN /\ builder' = r.v
        /\ call' = [call EXCEPT !.append_st = r.st,
                                !.out_type = GetArrowType(call.orc_type)]
  /\ pc' = "appended"
  /\ UNCHANGED <<reader_vars, heap, iterator>>
  /\ UNCHANGED <<table, batch_size, numRows, arrow_index_offset, arrow_chunk_offset,
                 root, i, added, closed, written, next_orc_offset>>

NextDecimal == ColumnWrite \/ DecimalAppend

SpecDecimal == InitDecimal /\ [][NextDecimal]_vars

\* The rows a decimal builder holds, in the form of ArrayRows
BuilderRows(abuilder) ==
  [p \in 1..BuilderLength(abuilder) |->
     IF abuilder.valid[p] THEN <<TRUE, abuilder.values[p]>> ELSE <<FALSE, 0>>]

\* C13: for every precision p in 1..38 the encode dispatcher writes through
\* the narrow (Decimal64) batch when p <= 18 and the wide (Decimal128) batch
\* when p >= 19, which is the batch of the column's ORC type; the decimal
\* appender reads the batch through the same class, so that the rows come back
\* as written; a file-side precision of 0 is read through the wide batch and
\* becomes decimal128(38, 6), every other precision keeps precision and scale.
C13_DecimalWidthAgrees ==
  LET p == call.orc_type.precision
      wide == p = 0 \/ p >= 19
      batch == root.children[1]
  IN /\ batch.kind = (IF wide THEN "Decimal128" ELSE "Decimal64")
     /\ (pc \in {"written", "appended"} /\ table /= <<>>) =>
          /\ p = table[1][1].type.precision
          /\ call.st = "OK"
          /\ RowsOf(batch, batch_size) = ArrayRows(table[1][1])
     /\ pc = "appended" =>
          /\ call.append_st = "OK"
          /\ BuilderLength(builder) = batch_size
          /\ \A row \in 0..(batch_size - 1) :
               /\ builder.valid[row + 1] = ~IsNullRow(batch, row)
               /\ builder.valid[row + 1] => builder.values[row + 1] = batch.data[row + 1]
          /\ table /= <<>> => BuilderRows(builder) = ArrayRows(table[1][1])
          /\ call.out_type
               = Return("OK", IF p = 0 THEN Decimal128Type(38, 6)
                              ELSE Decimal128Type(p, call.orc_type.scale))

\* An array of decimal128(19, s) with a null and a value has been written and
\* read back
C13_Witness ==
  /\ pc = "appended"
  /\ table /= <<>>
  /\ table[1][1].type.precision = 19
  /\ call.append_st = "OK"
  /\ \E a, b \in 1..batch_size : ~builder.valid[a] /\ builder.valid[b]

\* ------------------------------------------------------------------------
\* Timestamp columns of every unit, written and read back
\* ------------------------------------------------------------------------
\* date64 and the timestamp types of the four units
TimestampTypes ==
  {DataType("DATE64", <<>>)} \cup
  {TimestampType(u) : u \in {"SECOND", "MILLI", "MICRO", "NANO"}}

\* Units in a second of a type
UnitsPerSecond(type) ==
  CASE type.id = "DATE64" -> kOneSecondMillis
    [] type.unit = "SECOND" -> 1
    [] type.unit = "MILLI" -> kOneSecondMillis
    [] type.unit = "MICRO" -> kOneSecondMicros
    [] type.unit = "NANO" -> kOneSecondNanos

\* Values around zero and around one second before and after the epoch,
\* whole seconds and values between two seconds
TimestampValues(factor) ==
  {-factor - factor \div 2, -factor, -1, 0, 1, factor, factor + factor \div 2}

\* Timestamp arrays of n values each
TimestampArrays(type, n) ==
  {MakeArrayData(type, n, 0, bm, vals, <<>>, <<>>) :
     bm \in Bitmaps(n), vals \in [1..n -> TimestampValues(UnitsPerSecond(type))]}

InitTimestamp ==
  /\ \E type \in TimestampTypes : \E n \in 0..MaxLen :
       \E array \in TimestampArrays(type, n) :
         /\ table = <<<<array>>>>
         /\ batch_size = n
  /\ root = RowBatchOf(table, MaxLen)
  /\ builder = MakeBuilder(<<>>)
  /\ pc = "array"
  /\ call = [st |-> "", append_st |-> "", out_type |-> <<>>]
  /\ arrow_index_offset = <<0>>
  /\ arrow_chunk_offset = <<0>>
  /\ numRows = 0
  /\ i = 0
  /\ added = <<>>
  /\ closed = 0
  /\ NoReader
  /\ heap = <<>>
  /\ iterator = NoIterator
  /\ written = <<>>
  /\ next_orc_offset = 0


\* GetArrowType and AppendBatch(type, batch, 0, rows, builder) with the ORC
\* type of the column
ColumnReadBack ==
  /\ pc = "written"
  /\ call.st = "OK"
  /\ LET type == GetORCType(table[1][1].type).v
         r == AppendBatch(type, root.children[1], 0, batch_size, builder)
     IN /\ builder' = r.v
        /\ call' = [call EXCEPT !.append_st = r.st, !.out_type = GetArrowType(type)]
  /\ pc' = "appended"
  /\ UNCHANGED <<reader_vars, heap, iterator>>
  /\ UNCHANGED <<table, batch_size, numRows, arrow_index_offset, arrow_chunk_offset,
                 root, i, added, closed, written, next_orc_offset>>

NextTimestamp == ColumnWrite \/ ColumnReadBack

SpecTimestamp == InitTimestamp /\ [][NextTimestamp]_vars

\* The factor pairs (units per second, nanoseconds per unit) of the units
FactorFromSecond(type) ==
  IF type.id = "DATE64" THEN 1000
  ELSE CASE type.unit = "SECOND" -> 1
         [] type.unit = "MILLI" -> 1000
         [] type.unit = "MICRO" -> 1000000
         [] type.unit = "NANO" -> 1000000000

FactorToNano(type) == 1000000000 \div FactorFromSecond(type)

\* C14: for every valid timestamp V of every unit (date64 as milliseconds) the
\* writer stores seconds = floor(V / factor_from_second), the floor being the
\* mathematical one, and nanoseconds = (V - factor_from_second * seconds) *
\* factor_to_nano, which lies in 0 .. 10^9 - 1.
C14_TimestampSplitIsFloor ==
  pc \in {"written", "appended"} =>
    LET array == table[1][1]
        batch == root.children[1]
        from_second == FactorFromSecond(array.type)
    IN /\ call.st = "OK"
       /\ \A row \in 0..(array.length - 1) :
            IsValid(array, row) =>
              LET V == Value(array, row)
                  seconds == V \div from_second
              IN /\ batch.data[row + 1] = seconds
                 /\ batch.nanoseconds[row + 1]
                      = (V - from_second * seconds) * FactorToNano(array.type)

\* The column's values expressed in nanoseconds, as a timestamp(NANO) array
AsNanoArray(array) ==
  MakeArrayData(TimestampType("NANO"), array.length, 0, array.null_bitmap,
                [p \in 1..Len(array.values) |-> array.values[p] * FactorToNano(array.type)],
                <<>>, <<>>)

\* What writing an array to a fresh batch and reading the batch back gives
WrittenAndRead(array) ==
  LET type == GetORCType(array.type).v
      w == WriteBatch(array, 0, createRowBatch(type, MaxLen), FALSE)
  IN AppendBatch(type, w.v, 0, array.length, MakeBuilder(<<>>))

\* C15: a timestamp V written at unit u and read back is V * (10^9 / units per
\* second of u) nanoseconds at every valid position, with the nulls where they
\* were: the same column that writing the nanosecond values at unit NANO and
\* reading them back gives; the type read back is timestamp(NANO) for every
\* unit.
C15_TimestampReadBackInNanos ==
  pc = "appended" =>
    LET array == table[1][1]
    IN /\ call.append_st = "OK"
       /\ call.out_type = Return("OK", TimestampType("NANO"))
       /\ BuilderLength(builder) = array.length
       /\ \A row \in 0..(array.length - 1) :
            /\ builder.valid[row + 1] = IsValid(array, row)
            /\ IsValid(array, row) =>
                 builder.values[row + 1] = Value(array, row) * FactorToNano(array.type)
       /\ WrittenAndRead(AsNanoArray(array)) = Return("OK", builder)

\* A microsecond column with a null and a negative value that is no whole
\* number of seconds has been written and read back
C15_Witness ==
  /\ pc = "appended"
  /\ table[1][1].type.unit = "MICRO"
  /\ call.append_st = "OK"
  /\ \E a, b \in 0..(table[1][1].length - 1) :
       /\ IsNull(table[1][1], a)
       /\ IsValid(table[1][1], b)
       /\ Value(table[1][1], b) < 0
       /\ Value(table[1][1], b) % 1000000 /= 0

\* ------------------------------------------------------------------------
\* Columns stored in the 64-bit integer batch, written and read back
\* ------------------------------------------------------------------------
\* The types written through LongVectorBatch
LongTypes == {DataType(k, <<>>) : k \in {"BOOL", "INT8", "INT16", "INT32", "INT64", "DATE32"}}

\* Values of a type: its least and greatest, and values around zero.  INT64
\* values are taken from the 32-bit range the model's integers have.
TypeValues(type) ==
  CASE type.id = "BOOL" -> {FALSE, TRUE}
    [] type.id = "INT8" -> {-128, -1, 0, 127}
    [] type.id = "INT16" -> {-32768, -1, 0, 32767}
    [] OTHER -> {-2147483647 - 1, -1, 0, 2147483647}

\* int32 [1, null, 3]
ExampleInt32 == MakeArrayData(Int32, 3, 0, <<TRUE, FALSE, TRUE>>, <<1, 2, 3>>, <<>>, <<>>)

\* A batch fresh from createRowBatch, or one an earlier use has left with
\* hasNulls set and with flags and values in its buffers
UsedBatches(orc_type, cap) ==
  LET fresh == createRowBatch(orc_type, cap)
  IN {fresh,
      [fresh EXCEPT !.hasNulls = TRUE, !.notNull = [p \in 1..cap |-> p % 2 = 0],
                    !.data = [p \in 1..cap |-> 70 + p]]}

InitCast ==
  /\ \/ table = <<<<ExampleInt32>>>>
     \/ \E type \in LongTypes : \E n \in 0..MaxLen : \E bm \in Bitmaps(n) :
          \E vals \in [1..n -> TypeValues(type)] :
            table = <<<<MakeArrayData(type, n, 0, bm, vals, <<>>, <<>>)>>>>
  /\ batch_size = table[1][1].length
  /\ \E batch \in UsedBatches(GetORCType(table[1][1].type).v, MaxLen + 1) :
       root = MakeBatch("Struct", MaxLen + 1, <<batch>>)
  /\ builder = MakeBuilder(<<>>)
  /\ pc = "array"
  /\ call = [st |-> "", append_st |-> "", out_type |-> <<>>]
  /\ arrow_index_offset = <<0>>
  /\ arrow_chunk_offset = <<0>>
  /\ numRows = 0
  /\ i = 0
  /\ added = <<>>
  /\ closed = 0
  /\ NoReader
  /\ heap = <<>>
  /\ iterator = NoIterator
  /\ written = <<>>
  /\ next_orc_offset = 0

SpecCast == InitCast /\ [][NextTimestamp]_vars

\* C16: an array of bool, int8, int16, int32, int64 or date32 with any mix of
\* valid and null slots, written into the 64-bit integer batch and read back,
\* has the same length, the same null positions and the same value at every
\* valid position, least and greatest values of the type included, and the
\* type read back is the type written; int32 [1, null, 3] comes back as
\* [1, null, 3].
C16_IntegerRoundTrip ==
  pc = "appended" =>
    LET array == table[1][1]
    IN /\ call.st = "OK"
       /\ call.append_st = "OK"
       /\ call.out_type = Return("OK", array.type)
       /\ BuilderLength(builder) = array.length
       /\ \A row \in 0..(array.length - 1) :
            /\ builder.valid[row + 1] = IsValid(array, row)
            /\ IsValid(array, row) => builder.values[row + 1] = Value(array, row)
       /\ array = ExampleInt32 =>
            /\ builder.valid = <<TRUE, FALSE, TRUE>>
            /\ builder.values[1] = 1
            /\ builder.values[3] = 3

\* An int8 array holding -128 and a null has come back, through a batch that
\* had been used before
C16_Witness ==
  /\ pc = "appended"
  /\ table[1][1].type.id = "INT8"
  /\ call.append_st = "OK"
  /\ \E a, b \in 0..(table[1][1].length - 1) :
       /\ IsNull(table[1][1], a)
       /\ IsValid(table[1][1], b)
       /\ Value(table[1][1], b) = -128
       /\ builder.values[b + 1] = -128
  /\ root.children[1].data[MaxLen + 1] = 70 + MaxLen + 1

\* A batch with the notNull flags of every batch of the tree whose hasNulls is
\* false set to `flag`, and everything else as it is
RECURSIVE WithStaleFlags(_, _)
WithStaleFlags(batch, flag) ==
  [batch EXCEPT
     !.notNull = IF batch.hasNulls THEN @ ELSE [p \in 1..Len(@) |-> flag],
     !.children = [c \in 1..Len(@) |-> WithStaleFlags(@[c], flag)]]

\* Every slot of a builder tree is valid
RECURSIVE AllValid(_)
AllValid(abuilder) ==
  /\ \A p \in 1..Len(abuilder.valid) : abuilder.valid[p]
  /\ \A c \in 1..Len(abuilder.children) : AllValid(abuilder.children[c])

\* No batch of a batch tree has hasNulls set
RECURSIVE NoHasNulls(_)
NoHasNulls(batch) ==
  /\ ~batch.hasNulls
  /\ \A c \in 1..Len(batch.children) : NoHasNulls(batch.children[c])

\* C17: what AppendBatch appends does not depend on the notNull flags of a
\* batch whose hasNulls is false, at any level of a batch tree: the batch read
\* and the batches that differ from it in those flags only (all set, all
\* cleared) give the same builder; and where hasNulls is false the slots
\* appended are valid.
C17_StaleFlagsIgnored ==
  (pc = "decode" /\ i >= 1 /\ call.st = "OK") =>
    /\ \A flag \in BOOLEAN :
         AppendBatch(table[1], WithStaleFlags(root, flag), call.offset, call.length,
                     call.before) = Return("OK", builder)
    /\ ~root.hasNulls =>
         \A j \in 1..call.length : builder.valid[BuilderLength(call.before) + j]
    /\ (NoHasNulls(root) /\ i = 1) => AllValid(builder)

\* A list of structs read with hasNulls false at every level while flags are
\* cleared in the list batch and in the struct batch of its elements
C17_Witness ==
  /\ pc = "decode"
  /\ i >= 1
  /\ call.st = "OK"
  /\ table[1].kind = "LIST"
  /\ table[1].subtypes[1].kind = "STRUCT"
  /\ NoHasNulls(root)
  /\ call.offset = 0
  /\ call.length = root.numElements
  /\ \E p \in 1..root.numElements : ~root.notNull[p]
  /\ \E p \in 1..root.children[1].numElements : ~root.children[1].notNull[p]

\* ------------------------------------------------------------------------
\* ORCFileReader over the file ORCFileWriter produced
\* ------------------------------------------------------------------------
MaxStripes == 2    \* most stripes of a file

\* The ways the rows of a file lie in stripes: where a stripe ends is the
\* file-format library's choice, and a file may hold a stripe without rows
StripeLayouts(n) ==
  {s \in UNION {[1..k -> 0..n] : k \in 0..MaxStripes} : SumSeq(s) = n}

\* The rows of one column that writer_->add received, in order
AddedRows(batches, c) ==
  Flatten([k \in 1..Len(batches) |->
             RowsOf(batches[k].children[c], batches[k].numElements)])

\* What createReader finds in the stream after writer_->close: the type the
\* writer was opened with, the rows added, and the stripes holding them
WrittenFiles ==
  LET type == OrcType("STRUCT",
                      [c \in 1..Len(table) |-> GetORCType(table[c][1].type).v])
      rows == [c \in 1..Len(table) |-> AddedRows(added, c)]
  IN {[type |-> type, rows |-> rows, stripes |-> s] :
        s \in StripeLayouts(Len(rows[1]))}

\* reader_->getNumberOfRows()
NumberOfRows(orc_file) == SumSeq(orc_file.stripes)

\* stripes_.size()
NumberOfStripes(index) == Len(index)

\* Impl::Init: the loop over reader_->getStripe(i).  A stripe's byte offset
\* is modelled by its position in the file and its byte length by 1.
RECURSIVE InitLoop(_, _, _, _)
InitLoop(orc_file, k, first_row_of_stripe, index) ==
  IF k >= Len(orc_file.stripes) THEN index
  ELSE InitLoop(orc_file, k + 1, first_row_of_stripe + orc_file.stripes[k + 1],
                Append(index, [offset |-> k, length |-> 1,
                               num_rows |-> orc_file.stripes[k + 1],
                               first_row_of_stripe |-> first_row_of_stripe]))

\* The stripe readers NextStripeReader handed out since the file was opened
\* or a Seek was accepted: the row iteration started from then, and the
\* <<stripe, row>> each reader was bound to and positioned at
HandedOutFrom(row) == [start |-> row, readers |-> <<>>]

\* The record of a call of the file reader or of Write: the entry point, its
\* argument, the Status returned ("ParseError" when a liborc::ParseError left
\* the entry point instead), what it handed out, and the state it was called in
FileCall(op, arg, st, out) ==
  [op |-> op, arg |-> arg, st |-> st, out |-> out,
   row_before |-> current_row_, phase_before |-> phase]

\* ORCFileReader::Open on the written stream.  ArrowInputFile::read throws a
\* ParseError on a short read; createReader runs inside the try block.
Open ==
  /\ pc = "done"
  /\ phase = "Unopened"
  /\ \E orc_file \in WrittenFiles, short_read \in BOOLEAN :
       IF short_read
       THEN /\ call' = FileCall("Open", 0, "IOError", <<>>)
            /\ UNCHANGED <<reader_vars, written>>
       ELSE /\ file' = orc_file
            /\ current_row_' = 0
            /\ stripes_' = InitLoop(orc_file, 0, 0, <<>>)
            /\ phase' = "Open"
            /\ call' = FileCall("Open", 0, "OK", <<>>)
            /\ written' = HandedOutFrom(0)
            /\ UNCHANGED row_reader_
  /\ UNCHANGED <<table, batch_size, numRows, arrow_index_offset, arrow_chunk_offset,
                 root, i, pc, added, closed, next_orc_offset, builder, heap, iterator>>

\* Impl::Seek
SeekRow_CheckNegative(row_number, rows) == row_number < 0 \/ row_number >= rows

SeekRow(row_number, rows) == row_number >= rows

Seek ==
  /\ phase # "Unopened"
  /\ \E row_number \in -1..NumberOfRows(file) + 1 :
       IF SeekRow(row_number, NumberOfRows(file))
       THEN /\ call' = FileCall("Seek", row_number, "Invalid", <<>>)
            /\ UNCHANGED <<current_row_, written>>
       ELSE /\ current_row_' = row_number
            /\ written' = HandedOutFrom(row_number)
            /\ call' = FileCall("Seek", row_number, "OK", <<>>)
  /\ UNCHANGED <<file, stripes_, row_reader_, phase>>
  /\ UNCHANGED <<table, batch_size, numRows, arrow_index_offset, arrow_chunk_offset,
                 root, i, pc, added, closed, next_orc_offset, builder, heap, iterator>>

\* static_cast<uint64_t> of an int64_t: a negative value wraps to the top of
\* the unsigned range.  Uint64Max stands for 2^64 - 1.
Uint64Max == 2147483647

static_cast_uint64(v) == IF v < 0 THEN Uint64Max + (v + 1) ELSE v

\* Impl::SelectStripeWithRowNumber: the first stripe of the index holding the row
RECURSIVE SelectStripeLoop(_, _, _)
SelectStripeLoop(index, row_number, k) ==
  IF k > Len(index) THEN Return("Invalid", <<>>)
  ELSE IF /\ static_cast_uint64(row_number) >= index[k].first_row_of_stripe
          /\ static_cast_uint64(row_number) <
               index[k].first_row_of_stripe + index[k].num_rows
       THEN Return("OK", index[k])
       ELSE SelectStripeLoop(index, row_number, k + 1)

SelectStripeWithRowNumber(orc_file, index, row_number) ==
  IF row_number >= NumberOfRows(orc_file) THEN Return("Invalid", <<>>)
  ELSE SelectStripeLoop(index, row_number, 1)

\* Impl::SelectStripe
SelectStripe(index, stripe) ==
  IF stripe < 0 \/ stripe >= NumberOfStripes(index) THEN Return("Invalid", <<>>)
  ELSE Return("OK", index[stripe + 1])

\* Impl::SelectIndices: a negative field index is refused
SelectIndices(include_indices) ==
  IF \E k \in 1..Len(include_indices) : include_indices[k] < 0
  THEN Return("Invalid", <<>>)
  ELSE Return("OK", include_indices)

\* The columns RowReaderOptions selects: all without includeTypes, else the
\* columns whose type id is listed (the root has id 0, column c has id c)
SelectedColumns(orc_file, include_indices) ==
  IF include_indices = <<>> THEN [c \in 1..Len(orc_file.type.subtypes) |-> c]
  ELSE LET RECURSIVE pick(_)
           pick(c) ==
             IF c > Len(orc_file.type.subtypes) THEN <<>>
             ELSE (IF \E k \in 1..Len(include_indices) : include_indices[k] = c
                   THEN <<c>> ELSE <<>>) \o pick(c + 1)
       IN pick(1)

\* row_reader->getSelectedType()
getSelectedType(orc_file, columns) ==
  OrcType("STRUCT", [k \in 1..Len(columns) |-> orc_file.type.subtypes[columns[k]]])

\* Impl::GetArrowSchema: the Arrow types of the fields of a top-level struct
GetArrowSchema(type) ==
  IF type.kind # "STRUCT" THEN Return("NotImplemented", <<>>)
  ELSE LET fields == [k \in 1..Len(type.subtypes) |-> GetArrowType(type.subtypes[k])]
       IN IF \E k \in 1..Len(fields) : fields[k].st # "OK"
          THEN Return(fields[CHOOSE k \in 1..Len(fields) :
                               /\ fields[k].st # "OK"
                               /\ \A j \in 1..k - 1 : fields[j].st = "OK"].st, <<>>)
          ELSE Return("OK", [k \in 1..Len(fields) |-> fields[k].v])

\* Impl::ReadSchema(opts, out): createRowReader inside the try block, then
\* GetArrowSchema of the selected type
ReadSchema(orc_file, columns, short_read) ==
  IF short_read THEN Return("Invalid", <<>>)
  ELSE GetArrowSchema(getSelectedType(orc_file, columns))

\* reader_->createRowReader(opts) with opts.range(offset, length): a reader
\* of the selected columns over the rows of the stripes that start in the
\* byte range, positioned at the first of them
createRowReader(orc_file, index, columns, offset, length) ==
  LET inside == {k \in 1..Len(index) :
                   index[k].offset >= offset /\ index[k].offset < offset + length}
      first == IF inside = {} THEN 0
               ELSE index[CHOOSE k \in inside : \A j \in inside : k <= j]
                      .first_row_of_stripe
      last == IF inside = {} THEN 0
              ELSE LET k == CHOOSE m \in inside : \A j \in inside : m >= j
                   IN index[k].first_row_of_stripe + index[k].num_rows
  IN [columns |-> columns, type |-> getSelectedType(orc_file, columns),
      pos |-> first, end |-> last, batch_size |-> 0]

\* row_reader->seekToRow(row)
seekToRow(row_reader, row) == [row_reader EXCEPT !.pos = row]

\* Impl::NextStripeReader.  A short read while liborc creates the row reader
\* (in ReadSchema or in the try block) or seeks is caught and returned.
NextStripeReader ==
  /\ phase # "Unopened"
  /\ \E batch_sizes \in 1..MaxBatchSize, include_indices \in {<<>>, <<1>>, <<-1>>},
        short_read \in BOOLEAN :
       LET arg == <<batch_sizes, include_indices, short_read>>
           fail(st) == /\ call' = FileCall("NextStripeReader", arg, st, <<>>)
                       /\ UNCHANGED <<current_row_, row_reader_, phase, written>>
           indices == IF include_indices # <<>> THEN SelectIndices(include_indices)
                      ELSE Return("OK", <<>>)
           stripe_info == SelectStripeWithRowNumber(file, stripes_, current_row_)
           columns == SelectedColumns(file, include_indices)
           schema == ReadSchema(file, columns, short_read)
       IN IF current_row_ >= NumberOfRows(file)
          THEN /\ row_reader_' = <<>>
               /\ phase' = "EOF"
               /\ call' = FileCall("NextStripeReader", arg, "OK", <<>>)
               /\ UNCHANGED <<current_row_, written>>
          ELSE IF indices.st # "OK" THEN fail(indices.st)
          ELSE IF stripe_info.st # "OK" THEN fail(stripe_info.st)
          ELSE IF schema.st # "OK" THEN fail(schema.st)
          ELSE LET row_reader ==
                     seekToRow(createRowReader(file, stripes_, columns,
                                               stripe_info.v.offset,
                                               stripe_info.v.length),
                               current_row_)
                   out == [row_reader EXCEPT !.batch_size = batch_sizes]
               IN /\ current_row_' =
                       stripe_info.v.first_row_of_stripe + stripe_info.v.num_rows
                  /\ row_reader_' = out
                  /\ phase' = "Reading"
                  /\ written' = [written EXCEPT !.readers =
                                   Append(@, <<stripe_info.v.offset, out.pos>>)]
                  /\ call' = FileCall("NextStripeReader", arg, "OK", out)
  /\ UNCHANGED <<file, stripes_>>
  /\ UNCHANGED <<table, batch_size, numRows, arrow_index_offset, arrow_chunk_offset,
                 root, i, pc, added, closed, next_orc_offset, builder, heap, iterator>>

\* RecordBatchBuilder::Make(schema, ...): one field builder per field
RecordBatchBuilder(type) ==
  MakeBuilder([k \in 1..Len(type.subtypes) |-> BuilderOf(type.subtypes[k])])

\* for (int i = 0; i < builder->num_fields(); i++)
\*   RETURN_NOT_OK(AppendBatch(type.getSubtype(i), struct_batch.fields[i], 0,
\*                             batch->numElements, builder->GetField(i)));
AppendFields(type, struct_batch, abuilder) ==
  AppendStructFields(type, struct_batch, 0, struct_batch.numElements, abuilder, 1)

\* row_reader->next(batch): up to capacity rows from the reader's position to
\* the end of its range, stored from slot 0 of every field; false when none
RowReaderNext(orc_file, row_reader, batch) ==
  LET n == Max(0, Min(batch.capacity, row_reader.end - row_reader.pos))
      row(c, p) == orc_file.rows[row_reader.columns[c]][row_reader.pos + p]
      fill(c) ==
        [batch.children[c] EXCEPT
           !.numElements = n,
           !.hasNulls = \E p \in 1..n : ~row(c, p)[1],
           !.notNull = [p \in 1..Len(@) |-> IF p <= n THEN row(c, p)[1] ELSE @[p]],
           !.data = [p \in 1..Len(@) |-> IF p <= n THEN row(c, p)[2] ELSE @[p]]]
  IN [more |-> n > 0,
      batch |-> [batch EXCEPT !.numElements = n,
                              !.children = [c \in 1..Len(@) |-> fill(c)]],
      row_reader |-> [row_reader EXCEPT !.pos = @ + n]]

\* The places a call into liborc can throw a liborc::ParseError from
\* ArrowInputFile::read or ArrowOutputStream::write
ReadFaults == {"none", "createRowReader", "createRowBatch", "next"}

\* OrcStripeReader::ReadNext.  createRowBatch runs inside the try block;
\* row_reader_->next runs after it.
ReadNext ==
  /\ row_reader_ # <<>>
  /\ \E fault \in ReadFaults \ {"createRowReader"} :
       LET batch == createRowBatch(row_reader_.type, row_reader_.batch_size)
           step == RowReaderNext(file, row_reader_, batch)
           r == AppendFields(row_reader_.type, step.batch,
                             RecordBatchBuilder(row_reader_.type))
       IN CASE fault = "createRowBatch" ->
                 /\ call' = FileCall("ReadNext", 0, "Invalid", <<>>)
                 /\ UNCHANGED row_reader_
            [] fault = "next" ->
                 /\ call' = FileCall("ReadNext", 0, "ParseError", <<>>)
                 /\ UNCHANGED row_reader_
            [] OTHER ->
                 /\ row_reader_' = step.row_reader
                 /\ call' = IF ~step.more THEN FileCall("ReadNext", 0, "OK", <<>>)
                            ELSE FileCall("ReadNext", step.batch.numElements, r.st,
                                          IF r.st = "OK" THEN r.v ELSE <<>>)
  /\ UNCHANGED <<file, stripes_, current_row_, phase>>
  /\ UNCHANGED <<table, batch_size, numRows, arrow_index_offset, arrow_chunk_offset,
                 root, i, pc, added, closed, written, next_orc_offset, builder, heap, iterator>>

\* int64_t kReadRowsBatch: the number of rows to read in a ColumnVectorBatch
kReadRowsBatch == 1000

\* while (row_reader->next(*batch)) { AppendBatch per field }
RECURSIVE ReadBatchLoop(_, _, _, _)
ReadBatchLoop(orc_file, row_reader, batch, abuilder) ==
  LET step == RowReaderNext(orc_file, row_reader, batch)
      r == AppendFields(row_reader.type, step.batch, abuilder)
  IN IF ~step.more THEN Return("OK", abuilder)
     ELSE IF r.st # "OK" THEN Return(r.st, <<>>)
     ELSE ReadBatchLoop(orc_file, step.row_reader, step.batch, r.v)

\* Impl::ReadBatch over one byte range.  createRowReader and createRowBatch
\* run inside the try block; the loop over row_reader->next runs after it.
ReadBatch(orc_file, index, columns, offset, length, nrows, fault) ==
  IF fault \in {"createRowReader", "createRowBatch"} THEN Return("Invalid", <<>>)
  ELSE IF fault = "next" THEN Return("ParseError", <<>>)
  ELSE LET row_reader == createRowReader(orc_file, index, columns, offset, length)
           batch == createRowBatch(row_reader.type, Min(nrows, kReadRowsBatch))
       IN ReadBatchLoop(orc_file, row_reader, batch, RecordBatchBuilder(row_reader.type))

\* Impl::ReadTable: one ReadBatch per stripe of the index, in order
RECURSIVE ReadTable(_, _, _, _, _, _)
ReadTable(orc_file, index, columns, stripe, batches, fault) ==
  IF stripe >= Len(index) THEN Return("OK", batches)
  ELSE LET r == ReadBatch(orc_file, index, columns, index[stripe + 1].offset,
                          index[stripe + 1].length, index[stripe + 1].num_rows, fault)
       IN IF r.st # "OK" THEN Return(r.st, <<>>)
          ELSE ReadTable(orc_file, index, columns, stripe + 1, Append(batches, r.v),
                         fault)

\* Impl::Read(include_indices, out); Read(out) is the call without indices
Read ==
  /\ phase # "Unopened"
  /\ \E include_indices \in {<<>>, <<1>>, <<-1>>}, fault \in ReadFaults :
       LET indices == SelectIndices(include_indices)
           columns == SelectedColumns(file, include_indices)
           schema == ReadSchema(file, columns, fault = "createRowReader")
           r == ReadTable(file, stripes_, columns, 0, <<>>, fault)
       IN call' = IF indices.st # "OK"
                  THEN FileCall("Read", include_indices, indices.st, <<>>)
                  ELSE IF schema.st # "OK"
                  THEN FileCall("Read", include_indices, schema.st, <<>>)
                  ELSE FileCall("Read", include_indices, r.st, r.v)
  /\ UNCHANGED <<reader_vars, heap, iterator>>
  /\ UNCHANGED <<table, batch_size, numRows, arrow_index_offset, arrow_chunk_offset,
                 root, i, pc, added, closed, written, next_orc_offset, builder>>

\* Impl::ReadStripe(stripe, out)
ReadStripe ==
  /\ phase # "Unopened"
  /\ \E stripe \in -1..NumberOfStripes(stripes_), fault \in ReadFaults :
       LET selected == SelectStripe(stripes_, stripe)
           columns == SelectedColumns(file, <<>>)
           schema == ReadSchema(file, columns, fault = "createRowReader")
           r == ReadBatch(file, stripes_, columns, selected.v.offset,
                          selected.v.length, stripes_[stripe + 1].num_rows, fault)
       IN call' = IF selected.st # "OK"
                  THEN FileCall("ReadStripe", stripe, selected.st, <<>>)
                  ELSE IF schema.st # "OK"
                  THEN FileCall("ReadStripe", stripe, schema.st, <<>>)
                  ELSE FileCall("ReadStripe", stripe, r.st, r.v)
  /\ UNCHANGED <<reader_vars, heap, iterator>>
  /\ UNCHANGED <<table, batch_size, numRows, arrow_index_offset, arrow_chunk_offset,
                 root, i, pc, added, closed, written, next_orc_offset, builder>>

\* ORCFileWriter::Impl::Write when ArrowOutputStream::write or close fails
\* under writer_->add or writer_->close: ORC_THROW_NOT_OK throws a
\* liborc::ParseError, and Write has no try block
AddThrows ==
  /\ pc = "for"
  /\ i = Len(table)
  /\ root' = SetRootNumElements(root)
  /\ pc' = "escaped"
  /\ call' = FileCall("Write", Len(added), "ParseError", <<>>)
  /\ UNCHANGED <<reader_vars, heap, iterator>>
  /\ UNCHANGED <<table, batch_size, numRows, arrow_index_offset, arrow_chunk_offset,
                 i, added, closed, written, next_orc_offset, builder>>

CloseThrows ==
  /\ pc = "while"
  /\ numRows <= 0
  /\ pc' = "escaped"
  /\ call' = FileCall("Write", Len(added), "ParseError", <<>>)
  /\ UNCHANGED <<reader_vars, heap, iterator>>
  /\ UNCHANGED <<table, batch_size, numRows, arrow_index_offset, arrow_chunk_offset,
                 root, i, added, closed, written, next_orc_offset, builder>>

\* The tables written and read back: without rows, one column in two chunks,
\* two columns chunked differently
FileTables ==
  {<<PlainColumn(<<0>>, 0)>>, <<PlainColumn(<<1, 2>>, 0)>>,
   <<PlainColumn(<<2>>, 0), PlainColumn(<<1, 1>>, 5)>>}

InitFile == Init /\ table \in FileTables

NextFile ==
  \/ EnterLoop \/ WriteColumn \/ AddBatch \/ CloseWriter \/ AddThrows \/ CloseThrows
  \/ Open \/ Seek \/ NextStripeReader \/ ReadNext \/ Read \/ ReadStripe

SpecFile == InitFile /\ [][NextFile]_vars

\* ------------------------------------------------------------------------
\* Claims about the file reader's and writer's entry points (SpecFile)
\* ------------------------------------------------------------------------
\* The last call was a call of the file reader or a failed Write
IsFileCall == "op" \in DOMAIN call

\* C18: stripe iteration never leaves EOF.  A NextStripeReader call that
\* hands out a reader was not made in the EOF state (after a call that
\* signalled end of data), and a Seek that is accepted was made in the Open
\* or the Reading state.
C18_NoWayBackFromEOF ==
  IsFileCall =>
    /\ (call.op = "NextStripeReader" /\ call.out # <<>>) => call.phase_before # "EOF"
    /\ (call.op = "Seek" /\ call.st = "OK") => call.phase_before \in {"Open", "Reading"}

\* C19: Seek(r) with r outside [0, NumberOfRows) fails and leaves the resume
\* position as it was; Seek(r) with r inside succeeds and sets the resume
\* position to r.
C19_SeekChecksRange ==
  (IsFileCall /\ call.op = "Seek") =>
    IF call.arg >= 0 /\ call.arg < NumberOfRows(file)
    THEN call.st = "OK" /\ current_row_ = call.arg
    ELSE call.st # "OK" /\ current_row_ = call.row_before

\* C20: no liborc::ParseError leaves Open, Read, ReadStripe, NextStripeReader,
\* ReadNext or Write: each of them returns, with a Status.
C20_NoExceptionEscapes ==
  /\ pc # "escaped"
  /\ IsFileCall => call.st # "ParseError"

\* ------------------------------------------------------------------------
\* numElements and capacity of every batch of the destination tree (SpecEncode)
\* ------------------------------------------------------------------------
\* No buffer of the batch holds a slot stored at or past its capacity
WithinCapacity(batch) ==
  /\ Len(batch.notNull) <= batch.capacity
  /\ Len(batch.data) <= batch.capacity
  /\ Len(batch.length) <= batch.capacity
  /\ Len(batch.nanoseconds) <= batch.capacity
  /\ Len(batch.offsets) <= batch.capacity + 1

\* The entries populated in the batches below a batch that holds n entries:
\* n in every field of a struct, offsets[n] in the children of a list or map
PopulatedBelow(batch, n) ==
  IF batch.kind \in {"List", "Map"} THEN (IF n > 0 THEN batch.offsets[n + 1] ELSE 0)
  ELSE n

RECURSIVE StoresWithinCapacity(_)
StoresWithinCapacity(batch) ==
  /\ WithinCapacity(batch)
  /\ \A c \in 1..Len(batch.children) : StoresWithinCapacity(batch.children[c])

RECURSIVE NumElementsIsPopulated(_, _)
NumElementsIsPopulated(batch, n) ==
  /\ batch.numElements = n
  /\ \A c \in 1..Len(batch.children) :
       NumElementsIsPopulated(batch.children[c], PopulatedBelow(batch, n))

\* C21: after every chunked WriteBatch call every batch of the destination
\* tree (the column batch, each struct field batch, each list or map element
\* and key batch) has numElements equal to the number of entries populated in
\* it during the fill, and nothing was stored at or past a batch's capacity.
C21_NumElementsIsPopulated ==
  (pc = "filled" /\ call.st = "OK") =>
    /\ NumElementsIsPopulated(root.children[1], call.numElements)
    /\ StoresWithinCapacity(root.children[1])

\* ------------------------------------------------------------------------
\* The binary writers that copy each element into storage of its own:
\* WriteBinaryBatch and WriteFixedSizeBinaryBatch with pointer cursors
\* ------------------------------------------------------------------------
MaxAllocs == 4     \* allocations after which no further write is started

\* A char* that points nowhere; any other pointer is an index into heap
nullptr == 0

\* A StringVectorBatch as these writers use it: every data slot is a char*,
\* null in a fresh batch
PointerBatch(capacity) ==
  [MakeBatch("String", capacity, <<>>) EXCEPT !.data = Repeat(nullptr, capacity)]

\* batch->data[i] = new char[data_length]; memcpy(batch->data[i], data, data_length)
NewChars(h, bytes) == Append(h, [bytes |-> bytes, released |-> 0])

\* if (batch->data[i]) delete batch->data[i];
DeleteOld_Never(h, ptr) == h

DeleteOld(h, ptr) ==
  IF ptr # nullptr THEN [h EXCEPT ![ptr].released = @ + 1] ELSE h

\* incoming_mask == nullptr
NoMask == <<>>

\* incoming_mask && !(*incoming_mask)[*orc_offset]
MaskedOut(incoming_mask, orc_offset) ==
  incoming_mask # NoMask /\ ~incoming_mask[orc_offset + 1]

\* What a writer leaves behind: the batch, both cursors (written through
\* pointers), the heap, and the <<slot, index>> of every element copied
CopyReturn(batch, arrow_offset, orc_offset, h, source) ==
  [st |-> "OK", v |-> batch, arrow_offset |-> arrow_offset, orc_offset |-> orc_offset,
   heap |-> h, source |-> source]

\* for (; *orc_offset < length && *arrow_offset < arrow_length; ...): a null
\* or masked element clears notNull and leaves the slot's pointer alone; a
\* valid one releases the slot's storage, allocates data_length bytes, copies
\* the element and stores its length.  fixed: data_length is the byte_width.
RECURSIVE CopyLoop(_, _, _, _, _, _, _, _, _)
CopyLoop(batch, arrow_offset, orc_offset, length, array, incoming_mask, h, source, fixed) ==
  IF ~(orc_offset < length /\ arrow_offset < array.length)
  THEN CopyReturn([batch EXCEPT !.numElements = orc_offset], arrow_offset, orc_offset,
                  h, source)
  ELSE IF IsNull(array, arrow_offset) \/ MaskedOut(incoming_mask, orc_offset)
  THEN CopyLoop([batch EXCEPT !.notNull = Store(@, orc_offset, FALSE, TRUE)],
                arrow_offset + 1, orc_offset + 1, length, array, incoming_mask, h,
                source, fixed)
  ELSE LET data == Value(array, arrow_offset)
           data_length == IF fixed THEN array.type.byte_width ELSE Len(data)
           freed == DeleteOld(h, batch.data[orc_offset + 1])
           grown == NewChars(freed, SubSeq(data, 1, data_length))
       IN CopyLoop([batch EXCEPT !.notNull = Store(@, orc_offset, TRUE, TRUE),
                                 !.data = Store(@, orc_offset, Len(grown), nullptr),
                                 !.length = Store(@, orc_offset, data_length, Unset)],
                   arrow_offset + 1, orc_offset + 1, length, array, incoming_mask,
                   grown, Append(source, <<orc_offset, arrow_offset>>), fixed)

\* The body both writers share: nothing for an empty array, else hasNulls,
\* the loop and numElements
CopyBatch(batch, arrow_offset, orc_offset, length, array, incoming_mask, h, fixed) ==
  IF array.length = 0 THEN CopyReturn(batch, arrow_offset, orc_offset, h, <<>>)
  ELSE CopyLoop([batch EXCEPT !.hasNulls =
                                 @ \/ null_count(array) # 0 \/ incoming_mask # NoMask],
                arrow_offset, orc_offset, length, array, incoming_mask, h, <<>>, fixed)

WriteBinaryBatchCopy(batch, arrow_offset, orc_offset, length, array, incoming_mask, h) ==
  CopyBatch(batch, arrow_offset, orc_offset, length, array, incoming_mask, h, FALSE)

WriteFixedSizeBinaryBatchCopy(batch, arrow_offset, orc_offset, length, array, incoming_mask, h) ==
  CopyBatch(batch, arrow_offset, orc_offset, length, array, incoming_mask, h, TRUE)

BinaryTypes == {DataType("BINARY", <<>>), FixedSizeBinaryType(2)}

\* One column of one chunk of a binary type, whole or sliced, of MaxLen
\* elements, and a fresh batch of that capacity
InitBinary ==
  /\ \E type \in BinaryTypes : \E k \in 0..MaxOff :
       \E a \in Arrays(type, MaxLen + k, 1) : table = <<<<Slice(a, k, MaxLen)>>>>
  /\ batch_size = MaxLen
  /\ root = [MakeBatch("Struct", batch_size, <<PointerBatch(batch_size)>>)
               EXCEPT !.numElements = 0]
  /\ arrow_index_offset = <<0>>
  /\ arrow_chunk_offset = <<0>>
  /\ numRows = 0
  /\ i = 0
  /\ pc = "binary"
  /\ added = <<>>
  /\ closed = 0
  /\ NoReader
  /\ heap = <<>>
  /\ iterator = NoIterator
  /\ call = NoCall
  /\ written = <<>>
  /\ next_orc_offset = 0
  /\ builder = <<>>

\* One call of the writer of the column's kind, as the dispatcher makes it:
\* on any chunk, from any pair of cursors, with or without a mask of the
\* enclosing struct
BinaryWrite ==
  /\ pc = "binary"
  /\ Len(heap) < MaxAllocs
  /\ \E c \in 1..Len(table[1]), length \in 1..batch_size :
       \E arrow_offset \in 0..table[1][c].length, orc_offset \in 0..length,
          incoming_mask \in {NoMask} \cup [1..length -> BOOLEAN] :
         LET array == table[1][c]
             r == IF array.type.id = "FIXED_SIZE_BINARY"
                  THEN WriteFixedSizeBinaryBatchCopy(root.children[1], arrow_offset,
                                                     orc_offset, length, array,
                                                     incoming_mask, heap)
                  ELSE WriteBinaryBatchCopy(root.children[1], arrow_offset, orc_offset,
                                            length, array, incoming_mask, heap)
         IN /\ root' = [root EXCEPT !.children[1] = r.v]
            /\ heap' = r.heap
            /\ call' = [NoCall EXCEPT !.st = r.st, !.column = c, !.source = r.source,
                                      !.clears = call.clears]
  /\ UNCHANGED <<reader_vars, iterator>>
  /\ UNCHANGED <<table, batch_size, numRows, arrow_index_offset, arrow_chunk_offset,
                 i, pc, added, closed, written, next_orc_offset, builder>>

\* batch->clear() between two fills: numElements = 0, the slots keep their pointers
BinaryClear ==
  /\ pc = "binary"
  /\ root.children[1].numElements > 0
  /\ root' = clear(root)
  /\ call' = [call EXCEPT !.source = <<>>, !.clears = Min(@ + 1, 1)]
  /\ UNCHANGED <<reader_vars, heap, iterator>>
  /\ UNCHANGED <<table, batch_size, numRows, arrow_index_offset, arrow_chunk_offset,
                 i, pc, added, closed, written, next_orc_offset, builder>>

NextBinary == BinaryWrite \/ BinaryClear

SpecBinary == InitBinary /\ [][NextBinary]_vars

\* The slots of a batch that hold pointer a
SlotsHolding(batch, a) == {p \in 1..Len(batch.data) : batch.data[p] = a}

\* C22: over any sequence of writes that reuse one batch, every allocation the
\* writers made is either held by exactly one slot and not released, or held
\* by no slot and released exactly once; and every slot written from a valid
\* element holds that element's bytes and its byte length.
C22_StorageReleasedOnce ==
  pc = "binary" =>
    LET batch == root.children[1]
    IN /\ \A a \in 1..Len(heap) :
            /\ heap[a].released <= 1
            /\ Cardinality(SlotsHolding(batch, a)) = IF heap[a].released = 0 THEN 1 ELSE 0
       /\ \A e \in 1..Len(call.source) :
            LET slot == call.source[e][1]
                data == Value(table[1][call.column], call.source[e][2])
            IN /\ batch.length[slot + 1] = Len(data)
               /\ batch.data[slot + 1] # nullptr
               /\ heap[batch.data[slot + 1]].bytes = data

\* A slot written for the second time after a clear: the storage of the first
\* write is released, and a null written over a used slot left its storage held
C22_Witness ==
  /\ pc = "binary"
  /\ call.clears >= 1
  /\ Len(call.source) >= 1
  /\ \E a \in 1..Len(heap) : heap[a].released = 1
  /\ \E p \in 1..Len(root.children[1].data) :
       ~root.children[1].notNull[p] /\ root.children[1].data[p] # nullptr

\* ---------------------------------------------------------------------------
\* The stripe index and the order of the stripe readers
\* ---------------------------------------------------------------------------

\* The index entry of every stripe starts at the sum of the row counts of the
\* stripes before it and holds the stripe's own row count
IndexMatchesFile ==
  /\ Len(stripes_) = Len(file.stripes)
  /\ \A k \in 1..Len(stripes_) :
       /\ stripes_[k].num_rows = file.stripes[k]
       /\ stripes_[k].first_row_of_stripe = SumSeq(SubSeq(file.stripes, 1, k - 1))

\* The readers a row iteration from `start` has to hand out: one for each
\* stripe holding a row at or after start, in file order, the first positioned
\* at start and the others at their first row
RECURSIVE StripesFrom(_, _, _)
StripesFrom(index, start, k) ==
  IF k > Len(index) THEN <<>>
  ELSE (IF /\ index[k].num_rows > 0
           /\ index[k].first_row_of_stripe + index[k].num_rows > start
        THEN <<(<<index[k].offset, Max(start, index[k].first_row_of_stripe)>>)>>
        ELSE <<>>) \o StripesFrom(index, start, k + 1)

\* A NextStripeReader call that was given field indices the file has and met
\* no short read
IsPlainNextStripeReader ==
  /\ IsFileCall
  /\ call.op = "NextStripeReader"
  /\ call.arg[2] # <<-1>>
  /\ ~call.arg[3]

\* C23: the stripe index built at Open gives each stripe the sum of the row
\* counts before it as its first row and is never modified; from Open, or from
\* a Seek(r) that succeeded, the successive NextStripeReader calls hand out
\* the stripes holding the rows from there on in file order, each once (after
\* Seek(r) the first is the stripe holding r, positioned at r, the next the
\* stripe after it), and then signal the end of the data.
C23_StripeReadersInOrder ==
  phase # "Unopened" =>
    /\ IndexMatchesFile
    /\ LET due == StripesFrom(stripes_, written.start, 1)
       IN /\ Len(written.readers) <= Len(due)
          /\ written.readers = SubSeq(due, 1, Len(written.readers))
          /\ IsPlainNextStripeReader =>
               /\ call.st = "OK"
               /\ call.out = <<>> => written.readers = due
               /\ call.out # <<>> =>
                    /\ written.readers # <<>>
                    /\ written.readers[Len(written.readers)][2] = call.out.pos

\* C25: every timestamp entry the writer stores has a nanoseconds component
\* in 0 .. 10^9 - 1, for every value, negative values that are no whole number
\* of seconds included, and every unit.
C25_NanosInRange ==
  pc \in {"written", "appended"} =>
    LET array == table[1][1]
    IN \A row \in 0..(array.length - 1) :
         IsValid(array, row) =>
           /\ root.children[1].nanoseconds[row + 1] >= 0
           /\ root.children[1].nanoseconds[row + 1] < 1000000000

\* ---------------------------------------------------------------------------
\* NormalizeArray and the logical content of a struct array
\* ---------------------------------------------------------------------------

\* Field f of the normalized struct array agrees with field f of the original
\* at logical position q: valid exactly when the struct and the field are
\* valid there, and then of the same value when the field is of a leaf type
FieldPreservedAt(array, normalized, f, q) ==
  LET original_field == field(array, f)
      normalized_field == field(normalized, f)
  IN /\ IsValid(normalized_field, q) = (IsValid(array, q) /\ IsValid(original_field, q))
     /\ (IsValid(normalized_field, q) /\ original_field.type.id \in LeafTypeIds) =>
          Value(normalized_field, q) = Value(original_field, q)

\* C27: NormalizeArray preserves the logical content of every array, slices
\* included: the result has the same length, and at every position each
\* normalized field is valid exactly when the struct and the original field are
\* valid at that position (so null wherever the struct is null) and has the
\* original field's value where the struct is valid.
C27_NormalizePreservesContent ==
  (pc \in {"chunk", "filled"} /\ call.st = "OK") =>
    \A e \in 1..Len(call.source) :
      LET array == table[call.column][call.source[e][2] + 1]
          normalized == NormalizeArray(array)
      IN array.type.id = "STRUCT" =>
           /\ normalized.length = array.length
           /\ \A f \in 1..Len(array.type.children), q \in 0..(array.length - 1) :
                FieldPreservedAt(array, normalized, f, q)

\* C26: schema translation and value conversion agree on the types they
\* support: an array whose type GetORCType translates is accepted by the
\* per-array WriteBatch, and a batch whose file-format type GetArrowType
\* translates is decoded by AppendBatch.
C26_TranslationAgreesWithConversion ==
  /\ (pc \in {"array", "appended"} /\ i >= 1) =>
       (GetORCType(table[1][1].type).st = "OK" => call.st = "OK")
  /\ (pc = "decode" /\ i >= 1) =>
       (GetArrowType(table[1]).st = "OK" => call.st = "OK")

\* ---------------------------------------------------------------------------
\* Struct batches whose type has fields without a descriptor
\* ---------------------------------------------------------------------------

\* Struct types as a reader with a column selection hands them over: every
\* field described, or a field (of the struct, or of a struct below it) whose
\* descriptor is absent because the field was not selected
SelectTypes ==
  {OrcType("STRUCT", <<OrcType("INT", <<>>), OrcType("STRING", <<>>)>>),
   OrcType("STRUCT", <<OrcType("INT", <<>>), NullType>>),
   OrcType("STRUCT", <<NullType, OrcType("INT", <<>>)>>),
   OrcType("STRUCT", <<OrcType("STRUCT", <<OrcType("INT", <<>>), NullType>>)>>)}

InitSelect ==
  /\ \E type \in SelectTypes : \E n \in 0..MaxLen : \E batch \in OrcBatches(type, n, 1) :
       /\ table = <<type>>
       /\ root = batch
       /\ builder = BuilderOf(type)
  /\ batch_size = MaxLen
  /\ arrow_index_offset = <<0>>
  /\ arrow_chunk_offset = <<0>>
  /\ numRows = 0
  /\ i = 0
  /\ pc = "decode"
  /\ added = <<>>
  /\ closed = 0
  /\ NoReader
  /\ heap = <<>>
  /\ iterator = NoIterator
  /\ call = [st |-> "", offset |-> 0, length |-> 0, before |-> <<>>]
  /\ written = <<>>
  /\ next_orc_offset = 0

\* The decode step of OrcStripeReader::ReadNext on the batch read: a new
\* RecordBatchBuilder, and AppendBatch on each field over all the rows
DecodeTop ==
  /\ pc = "decode"
  /\ i = 0
  /\ LET r == AppendFields(table[1], root, RecordBatchBuilder(table[1]))
     IN /\ builder' = r.v
        /\ call' = [st |-> r.st, offset |-> 0, length |-> root.numElements,
                    before |-> RecordBatchBuilder(table[1])]
  /\ pc' = "top"
  /\ UNCHANGED <<reader_vars, heap, iterator>>
  /\ UNCHANGED <<table, batch_size, numRows, arrow_index_offset, arrow_chunk_offset,
                 root, i, added, closed, written, next_orc_offset>>

NextSelect == Decode \/ DecodeTop

SpecSelect == InitSelect /\ [][NextSelect]_vars

\* Every field builder of a struct builder has grown by n slots since
\* `before`, and so have the field builders of its struct-typed fields
RECURSIVE FieldsGrewBy(_, _, _, _)
FieldsGrewBy(type, before, abuilder, n) ==
  \A k \in 1..Len(abuilder.children) :
    /\ BuilderLength(abuilder.children[k]) = BuilderLength(before.children[k]) + n
    /\ type.subtypes[k].kind = "STRUCT" =>
         FieldsGrewBy(type.subtypes[k], before.children[k], abuilder.children[k], n)

\* C28: after a successful decode of a struct batch every field builder has
\* grown by as many slots as the struct builder, and after the top-level
\* decode step of the stripe reader by the batch's numElements, for every
\* field descriptor, the absent descriptor of a field not selected included.
C28_FieldBuildersGrowEqually ==
  /\ (pc = "decode" /\ i >= 1 /\ call.st = "OK") =>
       FieldsGrewBy(table[1], call.before, builder,
                    BuilderLength(builder) - BuilderLength(call.before))
  /\ (pc = "top" /\ call.st = "OK") =>
       FieldsGrewBy(table[1], call.before, builder, root.numElements)

\* ---------------------------------------------------------------------------
\* ArrowVectorIterator: a JDBC result set read in batches
\* ---------------------------------------------------------------------------

\* Rows of the result sets, columns of their schema
MaxRows == 4

Columns == 2

\* JdbcToArrowConfig.NO_LIMIT_BATCH_SIZE
NO_LIMIT_BATCH_SIZE == -1

\* java.sql.ResultSet.next(): the cursor (0 before the first row) moves to the
\* next row, or behind the last one, where it stays
ResultSetNext(it) ==
  [more |-> it.row < it.rows, it |-> [it EXCEPT !.row = Min(@ + 1, it.rows + 1)]]

\* java.sql.ResultSet.isAfterLast(): false for a result set without rows
isAfterLast(it) == it.rows > 0 /\ it.row > it.rows

\* new ArrowVectorIterator(resultSet, config): the consumers array is
\* allocated with every entry null, nextBatch is null
ArrowVectorIterator(rows, targetBatchSize, reuse) ==
  [rows |-> rows, row |-> 0, targetBatchSize |-> targetBatchSize,
   reuseVectorSchemaRoot |-> reuse, consumers |-> 0, nextBatch |-> "null",
   consumerCloses |-> 0, consumed |-> <<>>, roots |-> <<>>, turn |-> 0,
   op |-> "create", thrown |-> "", cause |-> ""]

\* What a call leaves: the iterator and the exception that left the call, if any
Thrown(it, e) == [it EXCEPT !.thrown = e]

\* close(): nextBatch.close() when roots are reused, then
\* compositeConsumer.close()
close(it) ==
  IF it.reuseVectorSchemaRoot /\ it.nextBatch = "null"
  THEN Thrown(it, "NullPointerException")
  ELSE [it EXCEPT !.nextBatch = IF it.reuseVectorSchemaRoot THEN "closed" ELSE @,
                  !.consumerCloses = @ + 1]

\* The steps of create() that can throw: resultSet.getMetaData() in the
\* constructor, getConsumer for column k, VectorSchemaRoot.create
CreateFaults ==
  {<<"none", 0>>, <<"getMetaData", 0>>, <<"createVectorSchemaRoot", 0>>} \cup
  {<<"getConsumer", k>> : k \in 1..Columns}

\* initialize(): the consumers in column order, then the root to reuse
initialize(it, fault) ==
  IF fault[1] = "getConsumer"
  THEN Thrown([it EXCEPT !.consumers = fault[2] - 1], "SQLException")
  ELSE IF it.reuseVectorSchemaRoot /\ fault[1] = "createVectorSchemaRoot"
       THEN Thrown([it EXCEPT !.consumers = Columns],
                   "Error occurred while creating schema root.")
       ELSE [it EXCEPT !.consumers = Columns,
                       !.nextBatch = IF it.reuseVectorSchemaRoot THEN "open" ELSE "null"]

\* ArrowVectorIterator.create(resultSet, config): the constructor and
\* initialize() in a try block; on a Throwable the iterator, when there is
\* one, is closed and the RuntimeException thrown with the Throwable as cause
create(rows, targetBatchSize, reuse, fault) ==
  LET new == ArrowVectorIterator(rows, targetBatchSize, reuse)
      initialized == initialize(new, fault)
      closing == close([initialized EXCEPT !.thrown = ""])
  IN IF fault[1] = "getMetaData"
     THEN [new EXCEPT !.thrown = "Error occurred while creating iterator.",
                      !.cause = "SQLException"]
     ELSE IF initialized.thrown = "" THEN initialized
     ELSE IF closing.thrown # "" THEN closing
     ELSE [closing EXCEPT !.thrown = "Error occurred while creating iterator.",
                          !.cause = initialized.thrown]

\* The loop condition of consumeData without the batch size test
BatchIsFull_Never(it, readRowCount) == FALSE

\* readRowCount < targetBatchSize, which the NO_LIMIT_BATCH_SIZE loop leaves out
BatchIsFull(it, readRowCount) ==
  it.targetBatchSize # NO_LIMIT_BATCH_SIZE /\ readRowCount >= it.targetBatchSize

\* The loops of consumeData: resultSet.next() is called only while the batch
\* is not full; compositeConsumer.consume of row number fault_at of the batch
\* throws
RECURSIVE ConsumeLoop(_, _, _)
ConsumeLoop(it, readRowCount, fault_at) ==
  IF BatchIsFull(it, readRowCount)
  THEN [it |-> it, readRowCount |-> readRowCount, thrown |-> FALSE]
  ELSE LET step == ResultSetNext(it)
       IN IF ~step.more
          THEN [it |-> step.it, readRowCount |-> readRowCount, thrown |-> FALSE]
          ELSE IF readRowCount + 1 = fault_at
               THEN [it |-> step.it, readRowCount |-> readRowCount, thrown |-> TRUE]
               ELSE ConsumeLoop([step.it EXCEPT !.consumed = Append(@, step.it.row)],
                                readRowCount + 1, fault_at)

\* consumeData(root): root.setRowCount(readRowCount) after the loop; a
\* Throwable closes the composite consumer and is wrapped
consumeData(it, fault_at) ==
  LET r == ConsumeLoop(it, 0, fault_at)
  IN IF r.thrown
     THEN [it |-> Thrown([r.it EXCEPT !.consumerCloses = @ + 1],
                         "Error occurred while consuming data."),
           rowCount |-> 0]
     ELSE [it |-> r.it, rowCount |-> r.readRowCount]

\* hasNext()
hasNext(it) == ~isAfterLast(it)

\* The roots a client can have been handed before the history stops growing;
\* `turn` alternates with every root returned, so that a turn of the loop
\* stays a step of the behaviour from then on
MaxRoots == MaxRows + 2

\* What next() can meet: nothing, a consume that throws, or (when roots are
\* not reused) a VectorSchemaRoot.create that throws
NextFaults == {"none", "consume", "createVectorSchemaRoot"}

\* next(), called with hasNext() true: the root reused or a new one, load(ret),
\* and on an Exception close() and the RuntimeException
next(it, fault) ==
  LET no_root == ~it.reuseVectorSchemaRoot /\ fault = "createVectorSchemaRoot"
      r == consumeData([it EXCEPT !.op = "next"], IF fault = "consume" THEN 1 ELSE 0)
      closing == close([(IF no_root THEN [it EXCEPT !.op = "next"] ELSE r.it)
                          EXCEPT !.thrown = ""])
  IN IF no_root \/ r.it.thrown # ""
     THEN IF closing.thrown # "" THEN closing
          ELSE [closing EXCEPT !.thrown = "Error occurred while getting next schema root.",
                               !.cause = IF no_root
                                         THEN "Error occurred while creating schema root."
                                         ELSE r.it.thrown]
     ELSE [r.it EXCEPT !.roots = IF Len(@) < MaxRoots THEN Append(@, r.rowCount) ELSE @,
                       !.turn = 1 - @]

InitIterator ==
  /\ iterator = NoIterator
  /\ pc = "create"
  /\ table = <<>>
  /\ batch_size = 0
  /\ numRows = 0
  /\ arrow_index_offset = <<>>
  /\ arrow_chunk_offset = <<>>
  /\ root = <<>>
  /\ i = 0
  /\ added = <<>>
  /\ closed = 0
  /\ call = <<>>
  /\ written = <<>>
  /\ next_orc_offset = 0
  /\ builder = <<>>
  /\ NoReader
  /\ heap = <<>>

\* The variables the iterator does not touch
IteratorFrame ==
  UNCHANGED <<table, batch_size, numRows, arrow_index_offset, arrow_chunk_offset, root,
              i, added, closed, call, written, next_orc_offset, builder, reader_vars,
              heap>>

\* ArrowVectorIterator.create on a result set before its first row
Create ==
  /\ pc = "create"
  /\ \E rows \in 0..MaxRows, targetBatchSize \in {NO_LIMIT_BATCH_SIZE, 1, 2},
        reuse \in BOOLEAN, fault \in CreateFaults :
       iterator' = create(rows, targetBatchSize, reuse, fault)
  /\ pc' = IF iterator'.thrown = "" THEN "loop" ELSE "failed"
  /\ IteratorFrame

\* One turn of the client's loop `while (hasNext()) next()`
IteratorNext ==
  /\ pc = "loop"
  /\ hasNext(iterator)
  /\ \E fault \in NextFaults : iterator' = next(iterator, fault)
  /\ pc' = IF iterator'.thrown = "" THEN "loop" ELSE "failed"
  /\ IteratorFrame

\* The loop left because hasNext() is false
IteratorDone ==
  /\ pc = "loop"
  /\ ~hasNext(iterator)
  /\ pc' = "done"
  /\ UNCHANGED iterator
  /\ IteratorFrame

\* The client's close() after the loop
IteratorClose ==
  /\ pc = "done"
  /\ iterator' = close([iterator EXCEPT !.op = "close"])
  /\ pc' = "closed"
  /\ IteratorFrame

NextIterator == Create \/ IteratorNext \/ IteratorDone \/ IteratorClose

SpecIterator == InitIterator /\ [][NextIterator]_vars

\* The client's loop runs on: a turn that can be taken is taken
FairIterator == SpecIterator /\ WF_vars(IteratorNext) /\ WF_vars(IteratorDone)

\* The rows left in the result set after the roots before root k
RowsRemaining(it, k) == it.rows - SumSeq(SubSeq(it.roots, 1, k - 1))

C29_LoopTerminates == (pc = "loop") ~> (pc \in {"done", "failed"})

\* C30: whenever create() fails, with or without root reuse, the partially
\* built iterator has been closed without a further failure and the exception
\* thrown is the RuntimeException "Error occurred while creating iterator."
\* with the original cause; close() never dereferences a root not created.
C30_CreateFailureIsWrapped ==
  iterator # NoIterator =>
    /\ iterator.thrown # "NullPointerException"
    /\ (iterator.op = "create" /\ iterator.thrown # "") =>
         /\ iterator.thrown = "Error occurred while creating iterator."
         /\ iterator.cause \in {"SQLException", "Error occurred while creating schema root."}

====
